---------------------------- MODULE Spec2Model ----------------------------
(***************************************************************************)
(* GearX spam guard: the message-classification core                      *)
(* (bot/services/spam_detector.py, bot/services/violation_tracker.py,     *)
(* bot/utils/message_analysis.py) and the handler that drives it          *)
(* (bot/events/message_events.py).                                         *)
(* Beside it: the settings store (bot/services/config_service.py), the     *)
(* staff test (bot/utils/permissions.py), the event hub and its SSE        *)
(* consumers (web/utils/event_hub.py, web/routes/dashboard.py) and the     *)
(* report schedule (bot/utils/schedule.py).                                *)
(*                                                                         *)
(* Time is counted in whole seconds.  A string is a tuple of one-character *)
(* strings, so that the text functions work on real characters.           *)
(***************************************************************************)
EXTENDS Integers, Sequences, FiniteSets, TLC

VARIABLES
    now,        \* the wall clock read by dt.datetime.utcnow(), in seconds
    history,    \* SpamDetector._history: dict of key -> bounded deque
    records,    \* ViolationTracker._records: dict of key -> ViolationRecord
    handlers,   \* the on_message coroutines in flight, by handler slot
    nextId,     \* identity of the next MessageRecord object to be created
    evicted,    \* ghost: identities of the MessageRecords dropped so far
    seen,       \* ghost: the pre-append histories the calls found, by key
    given,      \* ghost: the strike counts handed out, by key and epoch
    tally,      \* ghost: per key, counts of calls, strikes, resets, decays
    last,       \* ghost: the most recent register_message call
    logged,     \* the row log_service.log_violation wrote last
    subscribers, \* EventHub._subscribers: the set of subscribed queues
    queues,     \* the asyncio.Queue of each SSE connection, oldest item first
    conns,      \* the event_generator of each SSE connection: its position
    got,        \* ghost: the items each generator has taken from its queue
    heard,      \* ghost: the events published while each generator was alive
    db,         \* the guild_configs table: guild_id -> row
    cache,      \* GuildConfigStore._cache: guild_id -> GuildSettings
    threads,    \* the calls of the store in progress, by thread
    settled,    \* ghost: the settings of the last update_settings that returned
    sched,      \* generate_schedule_times: its locals and position
    dropped     \* ghost: the last message _process_message returned early for

hubVars == <<subscribers, queues, conns, got, heard>>

storeVars == <<db, cache, threads, settled>>

vars == <<now, history, records, handlers, nextId, evicted, seen, given,
          tally, last, logged, hubVars, storeVars, sched, dropped>>

-----------------------------------------------------------------------------
(* Program constants *)

\* ViolationTracker.__init__(decay_hours=24)
DecayHours == 24

SecondsPerHour == 3600

SecondsPerMinute == 60

\* self._decay_after = dt.timedelta(hours=decay_hours)
DecayAfter == DecayHours * SecondsPerHour

\* deque(maxlen=max(config.spam_limit * 2, 20))
MinCapacity == 20

\* details=message.content[:200]
DetailsMax == 200

\* is_similar(a, b, threshold=0.9), in percent
DuplicateThreshold == 90

\* is_similar(target, record.normalized, threshold=0.85), in percent
AiThreshold == 85

\* None where a string is expected (a reason, an action kind)
None == "None"

\* Optional values of other types: None is the empty tuple, a value v is <<v>>
Nothing == <<>>

Just(v) == <<v>>

\* dict.get(key) as an Optional
Get(dict, key) == IF key \in DOMAIN dict THEN Just(dict[key]) ELSE Nothing

\* dict[key] = value
Put(dict, key, value) ==
    [k \in DOMAIN dict \cup {key} |-> IF k = key THEN value ELSE dict[k]]

\* dict.pop(key, None)
Pop(dict, key) == [k \in DOMAIN dict \ {key} |-> dict[k]]

-----------------------------------------------------------------------------
(* Small helpers *)

Max(a, b) == IF a >= b THEN a ELSE b

Min(a, b) == IF a <= b THEN a ELSE b

Range(s) == {s[i] : i \in 1..Len(s)}

\* s[lo:hi] of Python for 0 <= lo, with hi clipped to len(s)
Slice(s, lo, hi) == SubSeq(s, lo + 1, Min(hi, Len(s)))

-----------------------------------------------------------------------------
(* bot/utils/message_analysis.py *)

Whitespace == {" ", "\n"}

\* characters of Unicode category C* (control, format): removed by normalize_content
ControlChars == {"ZWSP"}

UpperCase ==
    << "A", "B", "C", "D", "E", "F", "G", "H", "I", "J", "K", "L", "M",
       "N", "O", "P", "Q", "R", "S", "T", "U", "V", "W", "X", "Y", "Z" >>

LowerCase ==
    << "a", "b", "c", "d", "e", "f", "g", "h", "i", "j", "k", "l", "m",
       "n", "o", "p", "q", "r", "s", "t", "u", "v", "w", "x", "y", "z" >>

\* str.lower() of one character
LowerChar(c) ==
    IF \E i \in 1..Len(UpperCase) : UpperCase[i] = c
    THEN LowerCase[CHOOSE i \in 1..Len(UpperCase) : UpperCase[i] = c]
    ELSE c

Lower(s) == [i \in 1..Len(s) |-> LowerChar(s[i])]

RECURSIVE StripControl(_)
StripControl(s) ==
    IF s = <<>> THEN <<>>
    ELSE IF Head(s) \in ControlChars THEN StripControl(Tail(s))
    ELSE <<Head(s)>> \o StripControl(Tail(s))

RECURSIVE LStrip(_)
LStrip(s) ==
    IF s # <<>> /\ Head(s) \in Whitespace THEN LStrip(Tail(s)) ELSE s

RECURSIVE RStrip(_)
RStrip(s) ==
    IF s # <<>> /\ s[Len(s)] \in Whitespace
    THEN RStrip(SubSeq(s, 1, Len(s) - 1))
    ELSE s

\* str.strip()
Strip(s) == RStrip(LStrip(s))

\* re.sub(r"\s+", " ", text)
RECURSIVE CollapseWhitespace(_)
CollapseWhitespace(s) ==
    IF s = <<>> THEN <<>>
    ELSE IF Head(s) \in Whitespace
         THEN <<" ">> \o CollapseWhitespace(LStrip(Tail(s)))
         ELSE <<Head(s)>> \o CollapseWhitespace(Tail(s))

\* NFKD is the identity on the ASCII characters the model uses.
normalize_content(content) ==
    CollapseWhitespace(Strip(Lower(StripControl(content))))

\* whether tuple p occurs in s at 0-based position i
OccursAt(s, p, i) ==
    /\ i + Len(p) <= Len(s)
    /\ \A k \in 1..Len(p) : s[i + k] = p[k]

\* p in s
Contains(s, p) == \E i \in 0..Len(s) : OccursAt(s, p, i)

\* s.count(p), for a p that cannot overlap itself
CountOccurrences(s, p) == Cardinality({i \in 0..Len(s) : OccursAt(s, p, i)})

TokEveryone == <<"@", "e", "v", "e", "r", "y", "o", "n", "e">>

TokHere == <<"@", "h", "e", "r", "e">>

\* the alternatives of URL_PATTERN before their [^\s]+ tail
LinkPrefixes ==
    { <<"h", "t", "t", "p", ":", "/", "/">>,
      <<"h", "t", "t", "p", "s", ":", "/", "/">>,
      <<"w", "w", "w", ".">>,
      <<"d", "i", "s", "c", "o", "r", "d", ".", "g", "g", "/">> }

\* URL_PATTERN.search(content), re.IGNORECASE
contains_link(content) ==
    \E p \in LinkPrefixes : \E i \in 0..Len(content) :
        /\ OccursAt(Lower(content), p, i)
        /\ i + Len(p) + 1 <= Len(content)
        /\ content[i + Len(p) + 1] \notin Whitespace

\* variant: the mention_everyone flag not counted
CountWithoutFlag(message) ==
    message.mentions + message.role_mentions
    + CountOccurrences(message.content, TokEveryone)
    + CountOccurrences(message.content, TokHere)

count_mentions(message) ==
    message.mentions + message.role_mentions
    + (IF message.mention_everyone THEN 1 ELSE 0)
    + CountOccurrences(message.content, TokEveryone)
    + CountOccurrences(message.content, TokHere)

(* difflib.SequenceMatcher(None, a, b): positions are 0-based, ranges half-open *)

\* length of the common run of a and b starting at (i, j) inside [.., ahi) x [.., bhi)
RECURSIVE RunLength(_, _, _, _, _, _)
RunLength(a, b, i, j, ahi, bhi) ==
    IF i < ahi /\ j < bhi /\ a[i + 1] = b[j + 1]
    THEN 1 + RunLength(a, b, i + 1, j + 1, ahi, bhi)
    ELSE 0

\* SequenceMatcher.find_longest_match: the longest block, earliest in a, then in b
find_longest_match(a, b, alo, ahi, blo, bhi) ==
    LET cand == {<<i, j>> : i \in alo..(ahi - 1), j \in blo..(bhi - 1)}
        len(p) == RunLength(a, b, p[1], p[2], ahi, bhi)
        best == IF cand = {} THEN 0
                ELSE CHOOSE k \in 0..Max(ahi - alo, bhi - blo) :
                        /\ \E p \in cand : len(p) = k
                        /\ \A p \in cand : len(p) <= k
    IN  IF best = 0 THEN <<alo, blo, 0>>
        ELSE LET winners == {p \in cand : len(p) = best}
                 w == CHOOSE p \in winners :
                        \A q \in winners :
                            p[1] < q[1] \/ (p[1] = q[1] /\ p[2] <= q[2])
             IN <<w[1], w[2], best>>

\* sum of the sizes of SequenceMatcher.get_matching_blocks()
RECURSIVE MatchedCount(_, _, _, _, _, _)
MatchedCount(a, b, alo, ahi, blo, bhi) ==
    LET m == find_longest_match(a, b, alo, ahi, blo, bhi)
        i == m[1]
        j == m[2]
        k == m[3]
    IN  IF k = 0 THEN 0
        ELSE k
             + (IF alo < i /\ blo < j
                THEN MatchedCount(a, b, alo, i, blo, j) ELSE 0)
             + (IF i + k < ahi /\ j + k < bhi
                THEN MatchedCount(a, b, i + k, ahi, j + k, bhi) ELSE 0)

\* the normalized texts the environments below send, with their match counts
\* computed once
KnownTexts ==
    { <<"a", "b", "c">>, <<"a", "b", "c", "d">>, <<"x", "y", "z">>,
      <<"h", "i", " ", "@", "h", "e", "r", "e">>, <<"w", "w", "w", ".", "a">> }

MatchTable ==
    [p \in KnownTexts \X KnownTexts |->
        MatchedCount(p[1], p[2], 0, Len(p[1]), 0, Len(p[2]))]

Matches(a, b) ==
    IF a \in KnownTexts /\ b \in KnownTexts
    THEN MatchTable[<<a, b>>]
    ELSE MatchedCount(a, b, 0, Len(a), 0, Len(b))

\* SequenceMatcher.ratio() >= threshold, with the threshold in percent:
\* ratio is 2.0 * matches / (len(a) + len(b)), and 1.0 for two empty strings
is_similar(a, b, threshold) ==
    LET total == Len(a) + Len(b)
    IN  IF total = 0 THEN TRUE
        ELSE 200 * Matches(a, b) >= threshold * total

-----------------------------------------------------------------------------
(* bot/services/violation_tracker.py *)

\* ViolationRecord(count=0, last_triggered=now, last_decay_check=now)
ViolationRecord(count, t) ==
    [count |-> count, last_triggered |-> t, last_decay_check |-> t]

\* variant: the decay period taken in seconds instead of hours
DecayedBySeconds(record, t) ==
    LET elapsed == t - record.last_decay_check
        decay_steps == elapsed \div DecayHours
    IN  IF elapsed >= DecayHours
        THEN [record EXCEPT !.count = Max(0, record.count - decay_steps),
                            !.last_decay_check = t]
        ELSE record

\* variant: decay only when strictly more than a period has elapsed
DecayedStrict(record, t) ==
    LET elapsed == t - record.last_decay_check
        decay_steps == elapsed \div DecayAfter
    IN  IF elapsed > DecayAfter
        THEN [record EXCEPT !.count = Max(0, record.count - decay_steps),
                            !.last_decay_check = t]
        ELSE record

\* variant: no decay at all
DecayedNever(record, t) == record

\* the record as increment leaves it after the decay check, before the +1
Decayed(record, t) ==
    LET elapsed == t - record.last_decay_check
        decay_steps == elapsed \div DecayAfter
    IN  IF elapsed >= DecayAfter
        THEN [record EXCEPT !.count = Max(0, record.count - decay_steps),
                            !.last_decay_check = t]
        ELSE record

\* variant: the decay check made after the increment
IncrementThenDecay(recs, key, t) ==
    LET found == Get(recs, key)
        record == IF found = Nothing THEN ViolationRecord(0, t) ELSE found[1]
        raised == [record EXCEPT !.count = record.count + 1,
                                 !.last_triggered = t]
        stored == Decayed(raised, t)
    IN  [records |-> Put(recs, key, stored), count |-> stored.count]

\* variant: the count is computed and returned, the record is not stored
IncrementNoStore(recs, key, t) ==
    [records |-> recs,
     count |-> IF key \in DOMAIN recs THEN recs[key].count + 1 ELSE 1]

\* variant: the strike counted twice
IncrementTwice(recs, key, t) ==
    LET found == Get(recs, key)
        checked == IF found # Nothing THEN Just(Decayed(found[1], t)) ELSE found
        record == IF checked = Nothing \/ checked[1].count <= 0
                  THEN ViolationRecord(0, t)
                  ELSE checked[1]
        stored == [record EXCEPT !.count = record.count + 2,
                                 !.last_triggered = t]
    IN  [records |-> Put(recs, key, stored), count |-> stored.count]

\* variant: a record that has decayed to zero is dropped instead of restarted
IncrementForgets(recs, key, t) ==
    LET found == Get(recs, key)
        checked == IF found # Nothing THEN Just(Decayed(found[1], t)) ELSE found
        record == IF checked = Nothing THEN ViolationRecord(0, t) ELSE checked[1]
        stored == [record EXCEPT !.count = record.count + 1,
                                 !.last_triggered = t]
    IN  IF checked # Nothing /\ checked[1].count <= 0
        THEN [records |-> Pop(recs, key), count |-> 1]
        ELSE [records |-> Put(recs, key, stored), count |-> stored.count]

\* ViolationTracker.increment at time t: the new map and the returned count
increment(recs, key, t) ==
    LET found == Get(recs, key)
        checked == IF found # Nothing THEN Just(Decayed(found[1], t)) ELSE found
        record == IF checked = Nothing \/ checked[1].count <= 0
                  THEN ViolationRecord(0, t)
                  ELSE checked[1]
        stored == [record EXCEPT !.count = record.count + 1,
                                 !.last_triggered = t]
    IN  [records |-> Put(recs, key, stored), count |-> stored.count]

\* variant: the record is kept
ResetKeeps(recs, key) == recs

\* ViolationTracker.reset
reset(recs, key) == Pop(recs, key)

-----------------------------------------------------------------------------
(* bot/services/spam_detector.py *)

WARN == "warn"

DELETE == "delete"

TIMEOUT == "timeout"

KICK == "kick"

\* the reason strings of _detect_violation, in the order of its rules
ReasonMassMention == "mass mention"

ReasonFlood == "message flood"

ReasonMentionSpam == "mention spam"

ReasonDuplicate == "duplicate content"

ReasonAiSimilarity == "near-duplicate spam"

ReasonNewAccount == "new-account policy"

MessageRecord(id, t, content) ==
    [id |-> id, timestamp |-> t, content |-> content,
     normalized |-> normalize_content(content)]

\* deque(maxlen=max(config.spam_limit * 2, 20))
NewDeque(config) == [maxlen |-> Max(config.spam_limit * 2, MinCapacity), items |-> <<>>]

\* self._history.setdefault(key, deque(...)): an existing deque keeps its maxlen
SetDefault(hist, key, config) ==
    IF key \in DOMAIN hist THEN hist[key] ELSE NewDeque(config)

\* variant: appendleft, a full deque drops its rightmost item
DequeAppendLeft(entry, record) ==
    [entry EXCEPT !.items =
        IF Len(entry.items) >= entry.maxlen
        THEN <<record>> \o SubSeq(entry.items, 1, Len(entry.items) - 1)
        ELSE <<record>> \o entry.items]

\* deque.append on a bounded deque: a full deque drops its leftmost item
DequeAppend(entry, record) ==
    [entry EXCEPT !.items =
        IF Len(entry.items) >= entry.maxlen
        THEN Append(Tail(entry.items), record)
        ELSE Append(entry.items, record)]

\* variant: a record is dropped once it is time_window old
RECURSIVE PruneAtWindow(_, _, _)
PruneAtWindow(items, t, window) ==
    IF items # <<>> /\ t - items[1].timestamp >= window
    THEN PruneAtWindow(Tail(items), t, window)
    ELSE items

\* variant: `if` for `while`, at most one expired record is dropped
PruneOnce(items, t, window) ==
    IF items # <<>> /\ t - items[1].timestamp > window
    THEN Tail(items)
    ELSE items

\* while history and now - history[0].timestamp > window: history.popleft()
RECURSIVE PruneExpired(_, _, _)
PruneExpired(items, t, window) ==
    IF items # <<>> /\ t - items[1].timestamp > window
    THEN PruneExpired(Tail(items), t, window)
    ELSE items

\* list(history)[-n:]
Recent(items, n) == SubSeq(items, Max(1, Len(items) - n + 1), Len(items))

\* how many records before the newest of `recent` are similar to it
SimilarHits(recent, threshold) ==
    Cardinality({i \in 1..(Len(recent) - 1) :
        is_similar(recent[Len(recent)].normalized, recent[i].normalized, threshold)})

\* variant: one similar record of the two is enough
DuplicateOneHit(items) ==
    IF Len(items) < 3 THEN FALSE
    ELSE SimilarHits(Recent(items, 3), DuplicateThreshold) >= 1

_has_duplicate_content(items) ==
    IF Len(items) < 3 THEN FALSE
    ELSE SimilarHits(Recent(items, 3), DuplicateThreshold) >= 2

\* variant: the near-duplicate rule with the duplicate rule's threshold
AiSimilarityAtNinety(items) ==
    IF Len(items) < 4 THEN FALSE
    ELSE SimilarHits(Recent(items, 4), DuplicateThreshold) >= 2

_has_ai_like_similarity(items) ==
    IF Len(items) < 4 THEN FALSE
    ELSE SimilarHits(Recent(items, 4), AiThreshold) >= 2

\* variant: the keyword looked for as it is written
ExemptCaseSensitive(content, exception_keywords) ==
    \E i \in 1..Len(exception_keywords) :
        Contains(content, exception_keywords[i])

_is_ai_exempt(content, exception_keywords) ==
    \E i \in 1..Len(exception_keywords) :
        Contains(Lower(content), Lower(exception_keywords[i]))

\* variant: the table shifted by one strike
ActionOffByOne(count) ==
    IF count <= 2 THEN WARN
    ELSE IF count = 3 THEN DELETE
    ELSE IF count = 4 THEN TIMEOUT
    ELSE KICK

_action_for_count(count) ==
    IF count <= 1 THEN WARN
    ELSE IF count = 2 THEN DELETE
    ELSE IF count = 3 THEN TIMEOUT
    ELSE KICK

\* line 83: the mass-mention condition
IsMassMention(message) ==
    \/ message.mention_everyone
    \/ Contains(message.content, TokEveryone)
    \/ Contains(message.content, TokHere)

\* variant: the limit itself is a flood
IsFloodAtLimit(items, config) == Len(items) >= config.spam_limit

\* line 87: the flood condition
IsFlood(items, config) == Len(items) > config.spam_limit

\* line 93: `config.mention_limit and ...`: an int is true when it is not 0
IsMentionSpam(message, config) ==
    config.mention_limit # 0 /\ count_mentions(message) >= config.mention_limit

\* line 99: the near-duplicate condition with its exemption
IsAiSpam(message, items, config) ==
    /\ ~_is_ai_exempt(message.content, config.exception_keywords)
    /\ _has_ai_like_similarity(items)

\* variant: new only when both ages are below the minimum
NewAccountBothAges(message, items, config, t) ==
    /\ message.author_kind = "member"
    /\ LET account_age == t - message.created_at
           join_age == IF message.joined_at # Nothing
                       THEN t - message.joined_at[1]
                       ELSE account_age
           min_age == config.new_user_minutes * SecondsPerMinute
           is_new == account_age < min_age /\ join_age < min_age
       IN  /\ is_new
           /\ \/ contains_link(message.content)
              \/ count_mentions(message) >= 2
              \/ Len(items) >= config.spam_limit

\* lines 102-112: the new-member condition, at time t
IsNewAccountViolation(message, items, config, t) ==
    /\ message.author_kind = "member"
    /\ LET account_age == t - message.created_at
           join_age == IF message.joined_at # Nothing
                       THEN t - message.joined_at[1]
                       ELSE account_age
           min_age == config.new_user_minutes * SecondsPerMinute
           is_new == account_age < min_age \/ join_age < min_age
       IN  /\ is_new
           /\ \/ contains_link(message.content)
              \/ count_mentions(message) >= 2
              \/ Len(items) >= config.spam_limit

\* variant: no check of config.enabled
DetectWhenDisabled(message, items, config, t) ==
    IF IsMassMention(message) THEN <<ReasonMassMention, TIMEOUT>>
    ELSE IF IsFlood(items, config) THEN <<ReasonFlood, None>>
    ELSE IF IsMentionSpam(message, config) THEN <<ReasonMentionSpam, None>>
    ELSE IF _has_duplicate_content(items) THEN <<ReasonDuplicate, None>>
    ELSE IF IsAiSpam(message, items, config) THEN <<ReasonAiSimilarity, None>>
    ELSE IF IsNewAccountViolation(message, items, config, t)
         THEN <<ReasonNewAccount, None>>
    ELSE <<None, None>>

\* variant: the flood rule tried before the mass-mention rule
DetectFloodFirst(message, items, config, t) ==
    IF ~config.enabled THEN <<None, None>>
    ELSE IF IsFlood(items, config) THEN <<ReasonFlood, None>>
    ELSE IF IsMassMention(message) THEN <<ReasonMassMention, TIMEOUT>>
    ELSE IF IsMentionSpam(message, config) THEN <<ReasonMentionSpam, None>>
    ELSE IF _has_duplicate_content(items) THEN <<ReasonDuplicate, None>>
    ELSE IF IsAiSpam(message, items, config) THEN <<ReasonAiSimilarity, None>>
    ELSE IF IsNewAccountViolation(message, items, config, t)
         THEN <<ReasonNewAccount, None>>
    ELSE <<None, None>>

\* variant: the duplicate rule tried before the mention-spam rule
DetectDuplicateFirst(message, items, config, t) ==
    IF ~config.enabled THEN <<None, None>>
    ELSE IF IsMassMention(message) THEN <<ReasonMassMention, TIMEOUT>>
    ELSE IF IsFlood(items, config) THEN <<ReasonFlood, None>>
    ELSE IF _has_duplicate_content(items) THEN <<ReasonDuplicate, None>>
    ELSE IF IsMentionSpam(message, config) THEN <<ReasonMentionSpam, None>>
    ELSE IF IsAiSpam(message, items, config) THEN <<ReasonAiSimilarity, None>>
    ELSE IF IsNewAccountViolation(message, items, config, t)
         THEN <<ReasonNewAccount, None>>
    ELSE <<None, None>>

\* variant: the mass-mention rule forces no action
DetectNoForce(message, items, config, t) ==
    IF ~config.enabled THEN <<None, None>>
    ELSE IF IsMassMention(message) THEN <<ReasonMassMention, None>>
    ELSE IF IsFlood(items, config) THEN <<ReasonFlood, None>>
    ELSE IF IsMentionSpam(message, config) THEN <<ReasonMentionSpam, None>>
    ELSE IF _has_duplicate_content(items) THEN <<ReasonDuplicate, None>>
    ELSE IF IsAiSpam(message, items, config) THEN <<ReasonAiSimilarity, None>>
    ELSE IF IsNewAccountViolation(message, items, config, t)
         THEN <<ReasonNewAccount, None>>
    ELSE <<None, None>>

\* SpamDetector._detect_violation: <<reason, forced action>>
_detect_violation(message, items, config, t) ==
    IF ~config.enabled THEN <<None, None>>
    ELSE IF IsMassMention(message) THEN <<ReasonMassMention, TIMEOUT>>
    ELSE IF IsFlood(items, config) THEN <<ReasonFlood, None>>
    ELSE IF IsMentionSpam(message, config) THEN <<ReasonMentionSpam, None>>
    ELSE IF _has_duplicate_content(items) THEN <<ReasonDuplicate, None>>
    ELSE IF IsAiSpam(message, items, config) THEN <<ReasonAiSimilarity, None>>
    ELSE IF IsNewAccountViolation(message, items, config, t)
         THEN <<ReasonNewAccount, None>>
    ELSE <<None, None>>

\* variant: one key for the whole guild, that of its member "m1"
KeyOfGuild(message) == <<message.guild, "m1">>

KeyOf(message) == <<message.guild, message.author>>

SpamAction(action, reason, details, violation_count) ==
    [action |-> action, reason |-> reason, details |-> details,
     violation_count |-> violation_count]

\* SpamDetector.register_message past its guard, lines 49-72
RegisterValid(hist, recs, message, config, t, id) ==
    LET key == KeyOf(message)
        appended == DequeAppend(SetDefault(hist, key, config),
                                MessageRecord(id, t, message.content))
        pruned == [appended EXCEPT
                      !.items = PruneExpired(appended.items, t, config.time_window)]
        newhist == Put(hist, key, pruned)
        found == _detect_violation(message, pruned.items, config, t)
        violation_reason == found[1]
        forced_action == found[2]
    IN  IF violation_reason = None
        THEN [history |-> newhist, records |-> recs, result |-> Nothing]
        ELSE LET inc == increment(recs, key, t)
                 action_type == IF forced_action # None
                                THEN forced_action
                                ELSE _action_for_count(inc.count)
             IN  [history |-> newhist,
                  records |-> inc.records,
                  result |-> Just(SpamAction(action_type, violation_reason,
                                             Slice(message.content, 0, DetailsMax),
                                             inc.count))]

\* variant: no guard, every message is registered
RegisterUnguarded(hist, recs, message, config, t, id) ==
    RegisterValid(hist, recs, message, config, t, id)

\* SpamDetector.register_message at time t; id is the identity of the record
\* it creates.  The result holds the new history and tracker maps and the
\* returned value.
register_message(hist, recs, message, config, t, id) ==
    IF message.guild = None \/ message.author_kind # "member"
    THEN [history |-> hist, records |-> recs, result |-> Nothing]
    ELSE RegisterValid(hist, recs, message, config, t, id)

\* variant: every member's record is removed
ResetEveryone(recs, key) == <<>>

\* SpamDetector.reset_user
reset_user(recs, key) == reset(recs, key)

-----------------------------------------------------------------------------
(* bot/services/config_service.py *)

\* SpamDefaults.spam_limit
DefaultSpamLimit == 5

\* GuildConfigStore._create_default_model: the row it inserts
DefaultRow(guild_id) == [guild_id |-> guild_id, spam_limit |-> DefaultSpamLimit]

\* GuildSettings.from_model: a GuildSettings object with the row's values
from_model(model) ==
    [kind |-> "GuildSettings", guild_id |-> model.guild_id,
     spam_limit |-> model.spam_limit]

-----------------------------------------------------------------------------
(* bot/utils/permissions.py *)

\* variant: kick_members does not make a member privileged
PrivilegedWithoutKick(message) ==
    \/ message.owner
    \/ message.perms \cap {"administrator", "manage_guild", "manage_messages"} # {}

\* is_privileged(member), for the author of a message: owner is
\* `member.guild.owner_id == member.id`, perms the permissions that are set
\* in member.guild_permissions
is_privileged(message) ==
    \/ message.owner
    \/ "administrator" \in message.perms
    \/ "manage_guild" \in message.perms
    \/ "manage_messages" \in message.perms
    \/ "kick_members" \in message.perms

-----------------------------------------------------------------------------
(* web/utils/event_hub.py *)

\* EventHub.subscribe: the new queue joins the set
subscribe(subs, queue) == subs \cup {queue}

\* variant: the queue stays in the set
UnsubscribeKeeps(subs, queue) == subs

\* EventHub.unsubscribe: set.discard
unsubscribe(subs, queue) == subs \ {queue}

\* json.dumps({"type": event_type, "data": data})
Event(event_type, data) == [type |-> event_type, data |-> data]

\* variant: the message is put at the head of the queues
PublishAtHead(qs, subs, message) ==
    [q \in DOMAIN qs |-> IF q \in subs THEN <<message>> \o qs[q] ELSE qs[q]]

\* EventHub.publish: put_nowait on the queue of every subscriber; the
\* queues are unbounded, QueueFull is never raised
publish(qs, subs, message) ==
    [q \in DOMAIN qs |-> IF q \in subs THEN Append(qs[q], message) ELSE qs[q]]

-----------------------------------------------------------------------------
(* bot/utils/schedule.py: a time of day is <<hour, minute>> *)

MinutesPerDay == 24 * 60

\* _normalize_minutes; % is Python's: the result has the sign of the divisor
_normalize_minutes(hour, minute) == (hour % 24) * 60 + (minute % 60)

\* dt.time(hour=hour, minute=minute) of divmod(minutes, 60)
TimeOf(minutes) == <<minutes \div 60, minutes % 60>>

\* the sort key of line 37, (t.hour, t.minute), as one number
TimeKey(t) == t[1] * 60 + t[2]

\* a list left in the order of its appends
Unsorted(times) == times

\* the times whose key lies in lo..hi, ascending by key, those of one key
\* in list order
RECURSIVE Gather(_, _, _)
Gather(times, lo, hi) ==
    IF lo = hi
    THEN LET HasKey(t) == TimeKey(t) = lo IN SelectSeq(times, HasKey)
    ELSE Gather(times, lo, (lo + hi) \div 2)
           \o Gather(times, (lo + hi) \div 2 + 1, hi)

\* list.sort(key=...): stable and ascending; a dt.time has a key in
\* 0..MinutesPerDay - 1
SortTimes(times) == Gather(times, 0, MinutesPerDay - 1)

-----------------------------------------------------------------------------
(* bot/bot.py *)

\* SpamActionType.NONE
NONE == "none"

SpamActionType == {NONE, WARN, DELETE, TIMEOUT, KICK}

\* the action and the reason of the rows the forgive command logs
ActionForgive == "forgive"

ReasonForgive == "manual reset"

\* SpamLogService.log_violation: the row written
LogRow(key, reason, action, points, violation_count) ==
    [key |-> key, reason |-> reason, action |-> action, points |-> points,
     violation_count |-> violation_count]

\* variant: one point more for each step of the escalation
PointsByStep(action) ==
    IF action = WARN THEN 1
    ELSE IF action = DELETE THEN 2
    ELSE IF action = TIMEOUT THEN 3
    ELSE IF action = KICK THEN 4
    ELSE 0

\* SpamGuardBot._points_for_action
_points_for_action(action) ==
    IF action = WARN THEN 1
    ELSE IF action = DELETE THEN 1
    ELSE IF action = TIMEOUT THEN 3
    ELSE IF action = KICK THEN 5
    ELSE 0

\* SpamGuardBot.process_spam_action: the row it logs for a guild member
process_spam_action(message, action) ==
    LogRow(<<message.guild, message.author>>, action.reason, action.action,
           _points_for_action(action.action), action.violation_count)

-----------------------------------------------------------------------------
(* The inputs: message events and settings snapshots *)

Guild == "g1"

Member1 == "m1"

Member2 == "m2"

Keys == {<<Guild, Member1>>, <<Guild, Member2>>}

\* a member that has been in the guild for a long time / that has just joined
LongAgo == 0 - 1000000

JustNow == 0

Message(author, content, mentions, mention_everyone, created_at, joined_at) ==
    [guild |-> Guild, author |-> author, author_kind |-> "member",
     bot |-> FALSE, owner |-> FALSE, perms |-> {}, content |-> content, mentions |-> mentions,
     role_mentions |-> 0, mention_everyone |-> mention_everyone,
     created_at |-> created_at, joined_at |-> joined_at]

GuildSettings(enabled, spam_limit, time_window, mention_limit, new_user_minutes, exception_keywords) ==
    [enabled |-> enabled, spam_limit |-> spam_limit,
     time_window |-> time_window, mention_limit |-> mention_limit,
     new_user_minutes |-> new_user_minutes,
     exception_keywords |-> exception_keywords]

TxtAbc == <<"a", "b", "c">>

TxtAbcd == <<"a", "b", "c", "d">>

TxtAbcShout == <<" ", "A", "B", "c", " ">>

TxtXyz == <<"x", "y", "z">>

TxtHere == <<"h", "i", " ">> \o TokHere

TxtLink == <<"W", "w", "w", ".", "a">>

KeywordBc == <<"B", "C">>

MsgAbc == Message(Member1, TxtAbc, 0, FALSE, LongAgo, Just(LongAgo))

MsgAbcd == Message(Member1, TxtAbcd, 0, FALSE, LongAgo, Just(LongAgo))

MsgAbcShout == Message(Member1, TxtAbcShout, 0, FALSE, LongAgo, Just(LongAgo))

MsgXyz == Message(Member1, TxtXyz, 0, FALSE, LongAgo, Just(LongAgo))

MsgHere == Message(Member1, TxtHere, 0, FALSE, LongAgo, Just(LongAgo))

MsgEveryone == Message(Member1, TxtXyz, 0, TRUE, LongAgo, Just(LongAgo))

MsgMentions == Message(Member1, TxtXyz, 2, FALSE, LongAgo, Just(LongAgo))

MsgNewLink == Message(Member1, TxtLink, 2, FALSE, LongAgo, Just(JustNow))

MsgNewPlain == Message(Member1, TxtXyz, 0, FALSE, JustNow, Nothing)

MsgOther == Message(Member2, TxtAbc, 0, FALSE, LongAgo, Just(LongAgo))

\* an old account that has just joined, without link or mention
MsgNewJoined == Message(Member1, TxtXyz, 0, FALSE, LongAgo, Just(JustNow))

\* a new account that mentions two users
MsgNewMentions == Message(Member1, TxtXyz, 2, FALSE, JustNow, Nothing)

\* a link from a member of long standing
MsgOldLink == Message(Member1, TxtLink, 0, FALSE, LongAgo, Just(LongAgo))

\* one role mention and nothing else
MsgRole == [MsgXyz EXCEPT !.role_mentions = 1]

TxtShout == TokEveryone \o TokHere \o <<" ">> \o TokHere

\* a user mention, a role mention, the flag, and three tokens in the text
MsgShout == [Message(Member1, TxtShout, 1, TRUE, LongAgo, Just(LongAgo)) EXCEPT !.role_mentions = 1]

\* the second member's mass mention, as a member without permissions
MsgOtherHere == Message(Member2, TxtHere, 0, FALSE, LongAgo, Just(LongAgo))

\* the messages _process_message returns early for: the author is a bot, is
\* no member of the guild, owns the guild, or holds one of the four
\* permissions
StaffMessages ==
    {[MsgOtherHere EXCEPT !.perms = {p, "send_messages"}] :
        p \in {"administrator", "manage_guild", "manage_messages", "kick_members"}}
    \cup {[MsgOtherHere EXCEPT !.owner = TRUE],
          [MsgOtherHere EXCEPT !.bot = TRUE],
          [MsgOtherHere EXCEPT !.author_kind = "user"]}

\* a member whose permissions are none of the four
MsgHelper == [MsgHere EXCEPT !.perms = {"send_messages", "ban_members"}]

\* a direct message: no guild
MsgNoGuild == [MsgHere EXCEPT !.guild = None]

\* a message whose author is a discord.User, not a discord.Member
MsgFromUser == [MsgAbc EXCEPT !.author_kind = "user"]

-----------------------------------------------------------------------------
(* The state machine *)

Handlers == {1, 2}

\* the SSE connections a run may open
Connections == {1, 2}

\* the positions at which an event_generator is alive: before
\* request.is_disconnected(), in queue.get(), at a yield
Alive == {"polling", "waiting", "yielding"}

\* the threads that may call the config store
Threads == {1, 2, 3}

\* the event loop thread, where the dashboard routes call the store; the
\* other threads belong to the default executor
LoopThread == 1

\* a thread's call: its position, the operation, the row it holds, the value
\* an update writes, and for a finished call what it returned; ghost: the
\* last update that had returned when the call began (floor), and whether no
\* other update has begun since (clean)
ThreadState(pc, op, model, value, result, floor, clean) ==
    [pc |-> pc, op |-> op, model |-> model, value |-> value,
     result |-> result, floor |-> floor, clean |-> clean]

IdleThread == ThreadState("idle", None, Nothing, 0, Nothing, Nothing, FALSE)

\* the thread is between two calls
Free(t) == threads[t].pc \in {"idle", "returned", "failed"}

\* some thread is inside update_settings
Updating == \E t \in Threads : threads[t].op = "update" /\ ~Free(t)

Idle == [pc |-> "idle"]

InFlight == {h \in Handlers : handlers[h].pc = "fetched"}

\* calls: register_message calls; strikes: those that returned an action;
\* epoch: resets and decays so far; epochStrikes: strikes since the epoch
\* began; resets: forgive commands; firstStrike: time of the first strike
NoTally ==
    [calls |-> 0, strikes |-> 0, epoch |-> 0, epochStrikes |-> 0,
     resets |-> 0, firstStrike |-> Nothing]

Init ==
    /\ now = 0
    /\ history = <<>>
    /\ records = <<>>
    /\ handlers = [h \in Handlers |-> Idle]
    /\ nextId = 1
    /\ evicted = {}
    /\ seen = {}
    /\ given = {}
    /\ tally = [k \in Keys |-> NoTally]
    /\ last = Nothing
    /\ logged = Nothing
    /\ subscribers = {}
    /\ queues = [c \in Connections |-> <<>>]
    /\ conns = [c \in Connections |-> "new"]
    /\ got = [c \in Connections |-> <<>>]
    /\ heard = [c \in Connections |-> <<>>]
    /\ db = <<>>
    /\ cache = <<>>
    /\ threads = [t \in Threads |-> IdleThread]
    /\ settled = Nothing
    /\ sched = [pc |-> "idle"]
    /\ dropped = Nothing

\* bot.log_violation after its row is written: event_hub.publish("new_log", row)
Broadcast(row) ==
    /\ queues' = publish(queues, subscribers, Event("new_log", row))
    /\ heard' = [c \in Connections |->
                    IF conns[c] \in Alive
                    THEN Append(heard[c], Event("new_log", row))
                    ELSE heard[c]]

\* the clock advances
Tick(step, maxNow) ==
    /\ now + step <= maxNow
    /\ now' = now + step
    /\ UNCHANGED <<history, records, handlers, nextId, evicted, seen, given,
                   tally, last, logged>>
    /\ UNCHANGED <<hubVars, storeVars, sched, dropped>>

\* on_message -> _process_message up to the return of
\* `await bot.fetch_guild_settings(...)`, whose value is config
OnMessage(h, message, config, maxMessages) ==
    /\ handlers[h].pc = "idle"
    /\ nextId + Cardinality(InFlight) <= maxMessages
    /\ IF \/ message.guild = None
          \/ message.bot
          \/ message.author_kind # "member"
          \/ is_privileged(message)
       THEN handlers' = handlers /\ dropped' = Just(message)
       ELSE /\ handlers' = [handlers EXCEPT ![h] =
                  [pc |-> "fetched", message |-> message, config |-> config]]
            /\ dropped' = dropped
    /\ UNCHANGED <<now, history, records, nextId, evicted, seen, given,
                   tally, last, logged>>
    /\ UNCHANGED <<hubVars, storeVars, sched>>

\* the identities of the records a key's deque holds, oldest first
ItemIds(hist, key) ==
    IF key \notin DOMAIN hist THEN <<>>
    ELSE [i \in 1..Len(hist[key].items) |-> hist[key].items[i].id]

\* whether increment, called at time t, applies decay to the key's record
DecayApplies(recs, key, t) ==
    key \in DOMAIN recs /\ t - recs[key].last_decay_check >= DecayAfter

\* the ghost counters of a key after a call that struck or not, decayed or not
Tallied(old, struck, decayed, t) ==
    [calls |-> old.calls + 1,
     strikes |-> old.strikes + (IF struck THEN 1 ELSE 0),
     epoch |-> old.epoch + (IF decayed THEN 1 ELSE 0),
     epochStrikes |-> IF decayed THEN 1
                      ELSE old.epochStrikes + (IF struck THEN 1 ELSE 0),
     resets |-> old.resets,
     firstStrike |-> IF struck /\ old.firstStrike = Nothing
                     THEN Just(t) ELSE old.firstStrike]

\* _process_message resumes: the call of register_message, which runs to its
\* return without suspending
Register(h) ==
    /\ handlers[h].pc = "fetched"
    /\ \E r \in {register_message(history, records, handlers[h].message,
                                  handlers[h].config, now, nextId)} :
       LET message == handlers[h].message
           config == handlers[h].config
           key == KeyOf(message)
           before == Range(ItemIds(history, key)) \cup {nextId}
           after == Range(ItemIds(r.history, key))
           struck == r.result # Nothing
           decayed == struck /\ DecayApplies(records, key, now)
           counted == Tallied(tally[key], struck, decayed, now)
       IN  /\ history' = r.history
           /\ records' = r.records
           /\ nextId' = nextId + 1
           /\ evicted' = evicted \cup (before \ after)
           /\ seen' = seen \cup {<<key, ItemIds(history, key)>>}
           /\ given' = IF struck
                       THEN given \cup
                            {<<key, counted.epoch, r.result[1].violation_count>>}
                       ELSE given
           /\ tally' = [tally EXCEPT ![key] = counted]
           /\ last' = Just([key |-> key, message |-> message, config |-> config,
                            at |-> now, id |-> nextId,
                            pre |-> Get(history, key),
                            preRecord |-> Get(records, key),
                            preTally |-> tally[key],
                            postRecord |-> Get(r.records, key),
                            result |-> r.result])
           /\ handlers' = [handlers EXCEPT ![h] =
                  IF struck
                  THEN [pc |-> "acting", message |-> message, action |-> r.result[1]]
                  ELSE Idle]
    /\ UNCHANGED <<now, logged, hubVars, storeVars, sched, dropped>>

\* a call of SpamDetector.register_message by a caller that has not filtered
\* the message: the method applied to any message and settings
Apply(message, config, maxMessages) ==
    /\ nextId <= maxMessages
    /\ \E r \in {register_message(history, records, message, config, now,
                                  nextId)} :
       LET key == KeyOf(message)
           known == key \in Keys
           before == Range(ItemIds(history, key)) \cup {nextId}
           after == Range(ItemIds(r.history, key))
           struck == r.result # Nothing
           decayed == struck /\ DecayApplies(records, key, now)
           counted == Tallied(IF known THEN tally[key] ELSE NoTally,
                              struck, decayed, now)
       IN  /\ history' = r.history
           /\ records' = r.records
           /\ nextId' = nextId + 1
           /\ evicted' = evicted \cup (before \ after)
           /\ seen' = seen \cup {<<key, ItemIds(history, key)>>}
           /\ given' = IF struck
                       THEN given \cup
                            {<<key, counted.epoch, r.result[1].violation_count>>}
                       ELSE given
           /\ tally' = IF known THEN [tally EXCEPT ![key] = counted] ELSE tally
           /\ last' = Just([key |-> key, message |-> message, config |-> config,
                            at |-> now, id |-> nextId,
                            pre |-> Get(history, key),
                            preRecord |-> Get(records, key),
                            preTally |-> IF known THEN tally[key] ELSE NoTally,
                            postRecord |-> Get(r.records, key),
                            result |-> r.result])
    /\ UNCHANGED <<now, handlers, logged, hubVars, storeVars, sched, dropped>>

\* process_spam_action: the moderation action, then its log row.  The
\* helpers swallow discord.HTTPException, except for the notice that
\* _delete_message sends after the deletion: when that send fails (not
\* delivered) the exception leaves process_spam_action before it logs.
Act(h) ==
    /\ handlers[h].pc = "acting"
    /\ handlers' = [handlers EXCEPT ![h] = Idle]
    /\ \E delivered \in BOOLEAN :
          IF \/ handlers[h].message.guild = None
             \/ handlers[h].message.author_kind # "member"
             \/ handlers[h].action.action = DELETE /\ ~delivered
          THEN UNCHANGED <<logged, queues, heard>>
          ELSE \E row \in {process_spam_action(handlers[h].message,
                                                handlers[h].action)} :
                  logged' = Just(row) /\ Broadcast(row)
    /\ UNCHANGED <<now, history, records, nextId, evicted, seen, given,
                   tally, last>>
    /\ UNCHANGED <<subscribers, conns, got, storeVars, sched, dropped>>

\* the forgive command: spam_detector.reset_user(guild, member), for a
\* member with a strike record or without one, and its log row
Forgive(key, maxResets) ==
    /\ tally[key].resets < maxResets
    /\ records' = reset_user(records, key)
    /\ tally' = [tally EXCEPT ![key].epoch = @ + 1,
                              ![key].epochStrikes = 0,
                              ![key].resets = @ + 1]
    /\ logged' = Just(LogRow(key, ReasonForgive, ActionForgive, 0, 0))
    /\ Broadcast(LogRow(key, ReasonForgive, ActionForgive, 0, 0))
    /\ UNCHANGED <<now, history, handlers, nextId, evicted, seen, given, last>>
    /\ UNCHANGED <<subscribers, conns, got, storeVars, sched, dropped>>

\* the variables of the bot's message handling
botVars == <<now, history, records, handlers, nextId, evicted, seen, given, tally, last, logged, dropped>>

\* get_or_create, lines 54-57: the cache is read under the lock
GetBegin(t) ==
    /\ Free(t)
    /\ threads' = [threads EXCEPT ![t] =
          IF Guild \in DOMAIN cache
          THEN ThreadState("returned", "get", Nothing, 0, Just(cache[Guild]),
                           settled, ~Updating)
          ELSE ThreadState("get_read", "get", Nothing, 0, Nothing,
                           settled, ~Updating)]
    /\ UNCHANGED <<botVars, hubVars, db, cache, settled, sched>>

\* line 60: session.get(GuildConfig, guild_id)
GetRead(t) ==
    /\ threads[t].pc = "get_read"
    /\ threads' = [threads EXCEPT ![t].model = Get(db, Guild),
                                  ![t].pc = IF Guild \in DOMAIN db
                                            THEN "get_store" ELSE "get_create",
                                  ![t].clean = @ /\ ~Updating]
    /\ UNCHANGED <<botVars, hubVars, db, cache, settled, sched>>

\* _create_default_model: INSERT and commit of the default row; the primary
\* key guild_id makes the commit fail when the row exists by now
GetCreate(t) ==
    /\ threads[t].pc = "get_create"
    /\ IF Guild \in DOMAIN db
       THEN /\ threads' = [threads EXCEPT ![t].pc = "failed"]
            /\ db' = db
       ELSE /\ db' = Put(db, Guild, DefaultRow(Guild))
            /\ threads' = [threads EXCEPT ![t].model = Just(DefaultRow(Guild)),
                                          ![t].pc = "get_store",
                                          ![t].clean = @ /\ ~Updating]
    /\ UNCHANGED <<botVars, hubVars, cache, settled, sched>>

\* lines 63-67: from_model, then the cache is written under the lock
GetStore(t) ==
    /\ threads[t].pc = "get_store"
    /\ cache' = Put(cache, Guild, from_model(threads[t].model[1]))
    /\ threads' = [threads EXCEPT
          ![t].pc = "returned",
          ![t].result = Just(from_model(threads[t].model[1])),
          ![t].clean = @ /\ ~Updating /\ settled = threads[t].floor]
    /\ UNCHANGED <<botVars, hubVars, db, settled, sched>>

\* update_settings, line 71, called by a dashboard route on the event loop
\* thread: the route raises spam_limit by one
UpdateBegin(t, maxSpamLimit) ==
    /\ t = LoopThread
    /\ Free(t)
    /\ \E value \in {(IF Guild \in DOMAIN db THEN db[Guild].spam_limit
                       ELSE DefaultSpamLimit) + 1} :
          /\ value <= maxSpamLimit
          /\ threads' = [threads EXCEPT ![t] =
                ThreadState(IF Guild \in DOMAIN db THEN "update_commit"
                            ELSE "update_create",
                            "update", Get(db, Guild), value, Nothing, settled,
                            FALSE)]
    /\ UNCHANGED <<botVars, hubVars, db, cache, settled, sched>>

\* lines 72-73: the default row when there is none
UpdateCreate(t) ==
    /\ threads[t].pc = "update_create"
    /\ IF Guild \in DOMAIN db
       THEN /\ threads' = [threads EXCEPT ![t].pc = "failed"]
            /\ db' = db
       ELSE /\ db' = Put(db, Guild, DefaultRow(Guild))
            /\ threads' = [threads EXCEPT ![t].model = Just(DefaultRow(Guild)),
                                          ![t].pc = "update_commit"]
    /\ UNCHANGED <<botVars, hubVars, cache, settled, sched>>

\* lines 74-82: setattr, commit, refresh
UpdateCommit(t) ==
    /\ threads[t].pc = "update_commit"
    /\ \E row \in {[threads[t].model[1] EXCEPT !.spam_limit = threads[t].value]} :
          /\ db' = Put(db, Guild, row)
          /\ threads' = [threads EXCEPT ![t].model = Just(row),
                                        ![t].pc = "update_store"]
    /\ UNCHANGED <<botVars, hubVars, cache, settled, sched>>

\* lines 83-88: from_model, the cache is written under the lock, return
UpdateStore(t) ==
    /\ threads[t].pc = "update_store"
    /\ cache' = Put(cache, Guild, from_model(threads[t].model[1]))
    /\ settled' = Just(from_model(threads[t].model[1]))
    /\ threads' = [threads EXCEPT
          ![t].pc = "returned",
          ![t].result = Just(from_model(threads[t].model[1]))]
    /\ UNCHANGED <<botVars, hubVars, db, sched>>

\* sse_events, line 100: the generator starts and subscribes its own queue
Connect(c) ==
    /\ conns[c] = "new"
    /\ subscribers' = subscribe(subscribers, c)
    /\ queues' = [queues EXCEPT ![c] = <<>>]
    /\ conns' = [conns EXCEPT ![c] = "polling"]
    /\ UNCHANGED <<botVars, got, heard, storeVars, sched>>

\* lines 106-107 and 116-117: a disconnected client breaks the loop and the
\* finally clause unsubscribes
Poll(c, disconnected) ==
    /\ conns[c] = "polling"
    /\ IF disconnected
       THEN /\ subscribers' = unsubscribe(subscribers, c)
            /\ conns' = [conns EXCEPT ![c] = "disconnected"]
       ELSE /\ subscribers' = subscribers
            /\ conns' = [conns EXCEPT ![c] = "waiting"]
    /\ UNCHANGED <<botVars, queues, got, heard, storeVars, sched>>

\* lines 110-112: queue.get() returns the oldest message, which is yielded
Take(c) ==
    /\ conns[c] = "waiting"
    /\ queues[c] # <<>>
    /\ got' = [got EXCEPT ![c] = Append(@, Head(queues[c]))]
    /\ queues' = [queues EXCEPT ![c] = Tail(@)]
    /\ conns' = [conns EXCEPT ![c] = "yielding"]
    /\ UNCHANGED <<botVars, subscribers, heard, storeVars, sched>>

\* lines 113-115: no message for 15 seconds, a heartbeat is yielded
Timeout(c) ==
    /\ conns[c] = "waiting"
    /\ queues[c] = <<>>
    /\ conns' = [conns EXCEPT ![c] = "yielding"]
    /\ UNCHANGED <<botVars, subscribers, queues, got, heard, storeVars, sched>>

\* the response has sent the chunk and asks the generator for the next one
Resume(c) ==
    /\ conns[c] = "yielding"
    /\ conns' = [conns EXCEPT ![c] = "polling"]
    /\ UNCHANGED <<botVars, subscribers, queues, got, heard, storeVars, sched>>

\* the response is cancelled or closes the generator at an await or at the
\* yield: the finally clause of lines 116-117 runs
Cancel(c) ==
    /\ conns[c] \in Alive
    /\ subscribers' = unsubscribe(subscribers, c)
    /\ conns' = [conns EXCEPT ![c] = "cancelled"]
    /\ UNCHANGED <<botVars, queues, got, heard, storeVars, sched>>

\* generate_schedule_times, lines 19-24
Generate(hour, minute, interval_minutes) ==
    /\ sched.pc = "idle"
    /\ sched' = [pc |-> "loop",
                 hour |-> hour,
                 minute |-> minute,
                 interval |-> IF interval_minutes > 1 THEN interval_minutes ELSE 1,
                 start_minutes |-> _normalize_minutes(hour, minute),
                 minutes |-> _normalize_minutes(hour, minute),
                 seen |-> {},
                 times |-> <<>>,
                 result |-> <<>>]
    /\ UNCHANGED <<botVars, hubVars, storeVars>>

\* one pass of the while loop, lines 26-32
Loop ==
    /\ sched.pc = "loop"
    /\ sched.minutes \notin sched.seen
    /\ sched' = [sched EXCEPT
          !.seen = @ \cup {sched.minutes},
          !.times = Append(@, TimeOf(sched.minutes)),
          !.minutes = (@ + sched.interval) % MinutesPerDay,
          !.pc = IF sched.interval >= MinutesPerDay THEN "break" ELSE "loop"]
    /\ UNCHANGED <<botVars, hubVars, storeVars>>

\* the loop is left by its condition or by the break; lines 34-38
Finish ==
    /\ \/ sched.pc = "break"
       \/ sched.pc = "loop" /\ sched.minutes \in sched.seen
    /\ \E times \in {IF sched.times = <<>>
                      THEN <<<<sched.hour % 24, sched.minute % 60>>>>
                      ELSE sched.times} :
          sched' = [sched EXCEPT !.pc = "done",
                                 !.times = times,
                                 !.result = SortTimes(times)]
    /\ UNCHANGED <<botVars, hubVars, storeVars>>

\* the next-state relation over an environment: which handler slots run,
\* which messages and settings arrive, how the clock may advance
NextIn(env) ==
    \/ \E step \in env.steps : Tick(step, env.maxNow)
    \/ \E h \in env.handlers, m \in env.messages, c \in env.settings :
          OnMessage(h, m, c, env.maxMessages)
    \/ \E h \in env.handlers : Register(h)
    \/ \E h \in env.handlers : Act(h)
    \/ \E k \in env.forgiven : Forgive(k, env.maxResets)

-----------------------------------------------------------------------------
(* Bounds and environments *)

\* messages handled in one run of the detection environment
MaxMessages == 4

\* the last clock value of the detection environment
MaxNow == 1

\* forgive commands per member in one run
MaxResets == 1

\* limits 4 messages per 2 seconds, 2 mentions, 10 minutes of new-member care
CfgNormal == GuildSettings(TRUE, 4, 2, 2, 10, <<>>)

\* the same with a limit of 1 message per second
CfgStrict == GuildSettings(TRUE, 1, 1, 0, 10, <<>>)

\* detection switched off
CfgOff == GuildSettings(FALSE, 1, 1, 2, 10, <<>>)

\* the normal settings with an exception keyword
CfgExempt == GuildSettings(TRUE, 4, 2, 2, 10, <<KeywordBc>>)

EnvDetect ==
    [handlers |-> {1},
     messages |-> {MsgAbc, MsgAbcd, MsgHere, MsgNewLink},
     settings |-> {CfgNormal, CfgStrict},
     steps |-> {1},
     maxNow |-> MaxNow,
     maxMessages |-> MaxMessages,
     forgiven |-> {<<Guild, Member1>>},
     maxResets |-> MaxResets]

Next == NextIn(EnvDetect)

Spec == Init /\ [][Next]_vars

\* messages and last clock value of the window environment
MaxMessagesWindow == 3

MaxNowWindow == 3

\* one member, plain and mass-mention messages, windows of 1 and 2 seconds,
\* detection on and off
EnvWindow ==
    [handlers |-> {1},
     messages |-> {MsgAbc, MsgHere},
     settings |-> {CfgNormal, CfgStrict, CfgOff},
     steps |-> {1},
     maxNow |-> MaxNowWindow,
     maxMessages |-> MaxMessagesWindow,
     forgiven |-> {<<Guild, Member1>>},
     maxResets |-> MaxResets]

NextWindow == NextIn(EnvWindow)

SpecWindow == Init /\ [][NextWindow]_vars

\* messages of the capacity environment: more than the largest deque holds
MaxMessagesCapacity == 23

\* a limit of 11 messages per 2 seconds: a deque of 22
CfgWide == GuildSettings(TRUE, 11, 2, 0, 10, <<>>)

\* a burst of messages of one member while the limit is changed
EnvCapacity ==
    [handlers |-> {1},
     messages |-> {MsgXyz},
     settings |-> {CfgWide, CfgNormal},
     steps |-> {1},
     maxNow |-> MaxNow,
     maxMessages |-> MaxMessagesCapacity,
     forgiven |-> {<<Guild, Member1>>},
     maxResets |-> MaxResets]

NextCapacity == NextIn(EnvCapacity)

SpecCapacity == Init /\ [][NextCapacity]_vars

\* messages of the strike environment, and its length in decay periods
MaxMessagesStrikes == 5

MaxDays == 2

\* every message is a violation; the clock moves by a decay period, or by
\* a second less
EnvStrikes ==
    [handlers |-> {1},
     messages |-> {MsgMentions, MsgHere},
     settings |-> {CfgNormal},
     steps |-> {DecayAfter - 1, DecayAfter},
     maxNow |-> MaxDays * DecayAfter,
     maxMessages |-> MaxMessagesStrikes,
     forgiven |-> {<<Guild, Member1>>},
     maxResets |-> MaxResets]

NextStrikes == NextIn(EnvStrikes)

SpecStrikes == Init /\ [][NextStrikes]_vars

\* messages of the concurrent environment
MaxMessagesConcurrent == 4

\* two handlers in flight at once, for one member or for two; the clock
\* moves by whole decay periods
EnvConcurrent ==
    [handlers |-> {1, 2},
     messages |-> {MsgAbc, MsgHere, MsgOther},
     settings |-> {CfgStrict},
     steps |-> {DecayAfter},
     maxNow |-> MaxNow * DecayAfter,
     maxMessages |-> MaxMessagesConcurrent,
     forgiven |-> {<<Guild, Member1>>},
     maxResets |-> MaxResets]

NextConcurrent == NextIn(EnvConcurrent)

SpecConcurrent == Init /\ [][NextConcurrent]_vars

\* messages and last clock value of the flood environment
MaxMessagesFlood == 4

MaxNowFlood == 2

\* a limit of 3 messages per 2 seconds, no mention limit
CfgFlood == GuildSettings(TRUE, 3, 2, 0, 10, <<>>)

\* one member sends plain messages of two unlike texts under fixed settings
EnvFlood ==
    [handlers |-> {1},
     messages |-> {MsgAbc, MsgXyz},
     settings |-> {CfgFlood},
     steps |-> {1},
     maxNow |-> MaxNowFlood,
     maxMessages |-> MaxMessagesFlood,
     forgiven |-> {<<Guild, Member1>>},
     maxResets |-> MaxResets]

NextFlood == NextIn(EnvFlood)

SpecFlood == Init /\ [][NextFlood]_vars

\* messages of the exemption environment
MaxMessagesExempt == 4

\* one member sends texts that are alike without being duplicates and that
\* hold the exception keyword in lower case; settings with and without it
EnvExempt ==
    [handlers |-> {1},
     messages |-> {MsgAbc, MsgAbcd},
     settings |-> {CfgExempt, CfgNormal},
     steps |-> {1},
     maxNow |-> MaxNow,
     maxMessages |-> MaxMessagesExempt,
     forgiven |-> {<<Guild, Member1>>},
     maxResets |-> MaxResets]

NextExempt == NextIn(EnvExempt)

SpecExempt == Init /\ [][NextExempt]_vars

\* messages of the mention environment
MaxMessagesMention == 3

\* the normal settings with a mention limit below zero
CfgNegative == GuildSettings(TRUE, 4, 2, 0 - 1, 10, <<>>)

\* one member sends messages with two mentions and with none, under mention
\* limits of 2, 0 and -1
EnvMention ==
    [handlers |-> {1},
     messages |-> {MsgXyz, MsgMentions},
     settings |-> {CfgNormal, CfgStrict, CfgNegative},
     steps |-> {1},
     maxNow |-> MaxNow,
     maxMessages |-> MaxMessagesMention,
     forgiven |-> {<<Guild, Member1>>},
     maxResets |-> MaxResets]

NextMention == NextIn(EnvMention)

SpecMention == Init /\ [][NextMention]_vars

\* messages and last clock value of the ordering environment: one message
\* more than the smallest deque holds, and a clock that passes the window
MaxMessagesOrder == 21

MaxNowOrder == 2

\* a burst of one member under a limit of 1 message per second
EnvOrder ==
    [handlers |-> {1},
     messages |-> {MsgXyz},
     settings |-> {CfgStrict},
     steps |-> {1},
     maxNow |-> MaxNowOrder,
     maxMessages |-> MaxMessagesOrder,
     forgiven |-> {<<Guild, Member1>>},
     maxResets |-> MaxResets]

NextOrder == NextIn(EnvOrder)

SpecOrder == Init /\ [][NextOrder]_vars

\* messages and last clock value of the new-member environment; the clock
\* reaches the minimum age of CfgNewcomer, 10 minutes
MaxMessagesNewMember == 3

MaxNowNewMember == 600

\* no mention limit, so that two mentions reach the new-member rule
CfgNewcomer == GuildSettings(TRUE, 2, 2, 0, 10, <<>>)

\* its minimum age, in seconds
NewcomerAge == CfgNewcomer.new_user_minutes * SecondsPerMinute

\* members that are new by their account, new by their joining, or not new,
\* one second before the minimum age and at the minimum age
EnvNewMember ==
    [handlers |-> {1},
     messages |-> {MsgNewPlain, MsgNewJoined, MsgNewLink, MsgNewMentions,
                   MsgOldLink},
     settings |-> {CfgNewcomer},
     steps |-> {NewcomerAge - 1, NewcomerAge},
     maxNow |-> MaxNowNewMember,
     maxMessages |-> MaxMessagesNewMember,
     forgiven |-> {<<Guild, Member1>>},
     maxResets |-> MaxResets]

NextNewMember == NextIn(EnvNewMember)

SpecNewMember == Init /\ [][NextNewMember]_vars

\* messages of the counting environment
MaxMessagesCount == 2

\* messages with each kind of mention, alone and together
EnvCount ==
    [handlers |-> {1},
     messages |-> {MsgXyz, MsgHere, MsgEveryone, MsgMentions, MsgRole,
                   MsgShout},
     settings |-> {CfgNormal},
     steps |-> {1},
     maxNow |-> MaxNow,
     maxMessages |-> MaxMessagesCount,
     forgiven |-> {<<Guild, Member1>>},
     maxResets |-> MaxResets]

NextCount == NextIn(EnvCount)

SpecCount == Init /\ [][NextCount]_vars

\* messages of the retuning environment: one more than the smallest deque holds
MaxMessagesRetune == 21

\* the limit raised to 20 messages per 2 seconds
CfgTwenty == GuildSettings(TRUE, 20, 2, 0, 10, <<>>)

\* the n-th message of a member who writes two unlike texts two by two, so
\* that no message is like both of the two before it nor like two of the
\* three before it
RetuneMessage(n) == IF n % 4 \in {1, 2} THEN MsgAbc ELSE MsgXyz

\* a burst of one member within one second, while the guild's limit is
\* changed between 4 and 20
NextRetune ==
    \/ \E c \in {CfgNormal, CfgTwenty} :
          OnMessage(1, RetuneMessage(nextId), c, MaxMessagesRetune)
    \/ Register(1)
    \/ Act(1)

SpecRetune == Init /\ [][NextRetune]_vars

\* messages of the escalation environment: the limit of CfgStrict and the
\* four steps of the table
MaxMessagesEscalate == 5

\* one member keeps writing plain messages under a limit of 1 per second
EnvEscalate ==
    [handlers |-> {1},
     messages |-> {MsgAbc, MsgXyz},
     settings |-> {CfgStrict},
     steps |-> {1},
     maxNow |-> MaxNow,
     maxMessages |-> MaxMessagesEscalate,
     forgiven |-> {<<Guild, Member1>>},
     maxResets |-> MaxResets]

NextEscalate == NextIn(EnvEscalate)

SpecEscalate == Init /\ [][NextEscalate]_vars

\* messages of the enforcement environment
MaxMessagesEnforce == 4

\* two handler slots serve the messages of one member under a limit of 1
\* per second; the clock stands still and nobody forgives, so that no strike
\* decays and none is reset
NextEnforce ==
    \/ \E h \in Handlers, m \in {MsgAbc, MsgXyz} :
          OnMessage(h, m, CfgStrict, MaxMessagesEnforce)
    \/ \E h \in Handlers : Register(h)
    \/ \E h \in Handlers : Act(h)

SpecEnforce == Init /\ [][NextEnforce]_vars

\* messages of the staff environment
MaxMessagesStaff == 2

\* mass mentions of a member, of staff, of a bot and of a user who has left
EnvStaff ==
    [handlers |-> {1},
     messages |-> StaffMessages \cup {MsgHelper},
     settings |-> {CfgNormal},
     steps |-> {1},
     maxNow |-> MaxNow,
     maxMessages |-> MaxMessagesStaff,
     forgiven |-> {<<Guild, Member1>>},
     maxResets |-> MaxResets]

NextStaff == NextIn(EnvStaff)

SpecStaff == Init /\ [][NextStaff]_vars

\* the highest spam_limit the dashboard sets: two updates from the default
MaxSpamLimit == 7

\* the event loop thread and two executor threads use the store of one guild
NextStore ==
    \E t \in Threads :
        \/ GetBegin(t)
        \/ GetRead(t)
        \/ GetCreate(t)
        \/ GetStore(t)
        \/ UpdateBegin(t, MaxSpamLimit)
        \/ UpdateCreate(t)
        \/ UpdateCommit(t)
        \/ UpdateStore(t)

SpecStore == Init /\ [][NextStore]_vars

\* events published per member
MaxEvents == 2

\* dashboard connections come and go while the bot publishes log rows
NextHub ==
    \/ \E c \in Connections :
          \/ Connect(c)
          \/ \E disconnected \in BOOLEAN : Poll(c, disconnected)
          \/ Take(c)
          \/ Timeout(c)
          \/ Resume(c)
          \/ Cancel(c)
    \/ \E key \in Keys : Forgive(key, MaxEvents)

SpecHub == Init /\ [][NextHub]_vars

\* the report configurations tried: <<hour, minute, interval_minutes>>, with
\* the defaults, values out of range, intervals that wrap past midnight,
\* that visit every minute of the day and that are a day or longer
ScheduleConfigs ==
    {<<9, 0, 120>>, <<23, 0, 90>>, <<25, 61, 1000>>, <<-1, -1, 0>>,
     <<0, 0, 720>>, <<12, 30, 1440>>, <<23, 59, 2000>>, <<5, 5, -5>>,
     <<23, 59, 1439>>, <<0, 0, 7>>, <<24, 60, 45>>}

NextSchedule ==
    \/ \E config \in ScheduleConfigs : Generate(config[1], config[2], config[3])
    \/ Loop
    \/ Finish

\* a call that has begun keeps running until it returns
SpecSchedule == Init /\ [][NextSchedule]_vars /\ WF_vars(Loop \/ Finish)

\* messages of the direct environment
MaxMessagesDirect == 4

\* register_message applied to messages of a member, to a direct message
\* and to a message of a non-member
NextDirect ==
    \/ Tick(1, MaxNow)
    \/ \E m \in {MsgAbc, MsgHere, MsgNoGuild, MsgFromUser} :
          Apply(m, CfgStrict, MaxMessagesDirect)
    \/ Forgive(<<Guild, Member1>>, MaxResets)

SpecDirect == Init /\ [][NextDirect]_vars

-----------------------------------------------------------------------------
(* Properties.  `last` describes the most recent register_message call: its  *)
(* inputs, the key's deque and strike record before it, the strike record    *)
(* after it and the returned value.  The history map changes only in that    *)
(* call, so history[Call.key] is the deque as the call left it.              *)

Called == last # Nothing

Call == last[1]

\* the records of the last call's key after the call
PostItems == history[Call.key].items

Struck == Called /\ Call.result # Nothing

Returned == Call.result[1]

\* C1: window invariant.  After a register_message call with detection
\* enabled, every record left in the key's history is at most time_window
\* seconds older than the call, and no record that was dropped from a history
\* is in any history again.
WindowInvariant ==
    /\ (Called /\ Call.config.enabled) =>
          \A i \in 1..Len(PostItems) :
              Call.at - PostItems[i].timestamp <= Call.config.time_window
    /\ \A k \in DOMAIN history : Range(ItemIds(history, k)) \cap evicted = {}

\* a call that dropped expired records and kept two, the older of them
\* exactly time_window seconds old
WindowWitness ==
    /\ Called
    /\ Call.config.enabled
    /\ Call.pre # Nothing
    /\ \E i \in 1..Len(Call.pre[1].items) : Call.pre[1].items[i].id \in evicted
    /\ Len(PostItems) >= 2
    /\ Call.at - PostItems[1].timestamp = Call.config.time_window

\* C2: capacity invariant.  After every register_message call the key's
\* history holds at most max(2 * spam_limit, 20) records, spam_limit being
\* that of the settings passed to the call.
CapacityInvariant ==
    Called => Len(PostItems) <= Max(2 * Call.config.spam_limit, MinCapacity)

\* C3: with detection disabled, register_message leaves the history map as
\* it was: nothing appended, nothing pruned, no entry created.
DisabledLeavesHistory ==
    (Called /\ ~Call.config.enabled) => Get(history, Call.key) = Call.pre

\* C4: with detection disabled, register_message returns None, whatever
\* the message, and the key's strike record is as it was.
DisabledReturnsNone ==
    (Called /\ ~Call.config.enabled) =>
        /\ Call.result = Nothing
        /\ Call.postRecord = Call.preRecord

\* a disabled call for a mass mention that also overflows the limit, by a
\* member that has a strike record
DisabledWitness ==
    /\ Called
    /\ ~Call.config.enabled
    /\ IsMassMention(Call.message)
    /\ IsFlood(PostItems, Call.config)
    /\ Call.preRecord # Nothing

\* the count increment returns for a key whose record was `before`, at time t:
\* the count left after the decay of whole periods, plus one
ExpectedCount(before, t) ==
    IF before = Nothing THEN 1
    ELSE LET elapsed == t - before[1].last_decay_check
         IN  IF elapsed >= DecayAfter
             THEN Max(0, before[1].count - elapsed \div DecayAfter) + 1
             ELSE before[1].count + 1

\* C5: single reason.  A message that is a mass mention and a flood at once
\* is reported as mass mention with action timeout, and the strike counter
\* goes up by exactly one.
MassMentionBeatsFlood ==
    (/\ Called
     /\ Call.config.enabled
     /\ IsMassMention(Call.message)
     /\ IsFlood(PostItems, Call.config)) =>
        /\ Struck
        /\ Returned.reason = ReasonMassMention
        /\ Returned.action = TIMEOUT
        /\ Returned.violation_count = ExpectedCount(Call.preRecord, Call.at)
        /\ Call.postRecord # Nothing
        /\ Call.postRecord[1].count = ExpectedCount(Call.preRecord, Call.at)

\* a mass mention that is a flood too, by a member with a strike already
MassMentionFloodWitness ==
    /\ Called
    /\ Call.config.enabled
    /\ IsMassMention(Call.message)
    /\ IsFlood(PostItems, Call.config)
    /\ Call.preRecord # Nothing
    /\ Returned.violation_count = 2

\* whether the i-th rule, in the fixed order, matches the last call
RuleMatches(i) ==
    CASE i = 1 -> IsMassMention(Call.message)
      [] i = 2 -> IsFlood(PostItems, Call.config)
      [] i = 3 -> IsMentionSpam(Call.message, Call.config)
      [] i = 4 -> _has_duplicate_content(PostItems)
      [] i = 5 -> IsAiSpam(Call.message, PostItems, Call.config)
      [] i = 6 -> IsNewAccountViolation(Call.message, PostItems, Call.config,
                                        Call.at)

RuleReasons ==
    << ReasonMassMention, ReasonFlood, ReasonMentionSpam, ReasonDuplicate,
       ReasonAiSimilarity, ReasonNewAccount >>

\* the first rule that matches the last call, 0 when none does
FirstMatch ==
    IF \E i \in 1..6 : RuleMatches(i)
    THEN CHOOSE i \in 1..6 :
            RuleMatches(i) /\ \A j \in 1..(i - 1) : ~RuleMatches(j)
    ELSE 0

\* C6: rule priority.  With detection enabled, the reason returned is that
\* of the first rule, in the fixed order, that matches: a later rule's reason
\* is returned only when no earlier rule matches, and None is returned only
\* when no rule matches.
RulePriority ==
    (Called /\ Call.config.enabled) =>
        \E first \in {FirstMatch} :
            IF first = 0
            THEN Call.result = Nothing
            ELSE Struck /\ Returned.reason = RuleReasons[first]

\* the mention-spam rule decides a message that the duplicate rule and the
\* new-member rule match as well
RulePriorityWitness ==
    /\ Called
    /\ Call.config.enabled
    /\ Struck
    /\ Returned.reason = ReasonMentionSpam
    /\ RuleMatches(4)
    /\ RuleMatches(6)

\* C7: escalation table.  When no action is forced, the action is warn for
\* strike count 1, delete for 2, timeout for 3 and kick from 4 on.
EscalationTable ==
    (Struck /\ Returned.reason # ReasonMassMention) =>
        /\ Returned.violation_count >= 1
        /\ Returned.violation_count = 1 => Returned.action = WARN
        /\ Returned.violation_count = 2 => Returned.action = DELETE
        /\ Returned.violation_count = 3 => Returned.action = TIMEOUT
        /\ Returned.violation_count >= 4 => Returned.action = KICK

\* a fifth strike, not forced, answered by a kick
EscalationWitness ==
    /\ Struck
    /\ Returned.reason # ReasonMassMention
    /\ Returned.violation_count = 5
    /\ Returned.action = KICK

\* C8 as stated: whatever the interleaving of the handlers, no two calls for
\* a key found the same pre-append history, and no two strikes of a key
\* received the same count.
AtomicPerKeyAlways ==
    \A k \in Keys :
        /\ Cardinality({s \in seen : s[1] = k}) = tally[k].calls
        /\ Cardinality({g[3] : g \in {x \in given : x[1] = k}})
              = tally[k].strikes

\* C8, amended: per-key atomicity.  Whatever the interleaving of the
\* handlers, no two calls for a key found the same pre-append history, and
\* no two strikes of a key received the same count unless a reset or a decay
\* of the key's record came between them.
AtomicPerKey ==
    \A k \in Keys :
        /\ Cardinality({s \in seen : s[1] = k}) = tally[k].calls
        /\ Cardinality({g \in given : g[1] = k /\ g[2] = tally[k].epoch})
              = tally[k].epochStrikes

\* two handlers of one member, both past register_message and both still
\* busy with their moderation action
ConcurrentWitness ==
    /\ handlers[1].pc = "acting"
    /\ handlers[2].pc = "acting"
    /\ KeyOf(handlers[1].message) = KeyOf(handlers[2].message)
    /\ handlers[1].action.violation_count # handlers[2].action.violation_count

\* C9: strike accumulation.  The count returned is the count stored; and
\* with no reset, while less than a decay period has passed since the key's
\* first strike, the k-th strike returns k.
StrikeAccumulation ==
    Struck =>
        /\ Call.postRecord # Nothing
        /\ Call.postRecord[1].count = Returned.violation_count
        /\ (/\ tally[Call.key].resets = 0
            /\ Call.at - tally[Call.key].firstStrike[1] < DecayAfter) =>
               Returned.violation_count = tally[Call.key].strikes

\* a third strike one second short of a decay period after the first
AccumulationWitness ==
    /\ Struck
    /\ tally[Call.key].resets = 0
    /\ Call.at - tally[Call.key].firstStrike[1] = DecayAfter - 1
    /\ Returned.violation_count = 3

\* C10: decay arithmetic.  increment on a record with count c, elapsed
\* seconds after its last decay check: from a full decay period on it returns
\* max(0, c - floor(elapsed / period)) + 1 and moves the decay check to now;
\* before that it returns c + 1 and leaves the decay check alone.
DecayArithmetic ==
    (Struck /\ Call.preRecord # Nothing) =>
        LET before == Call.preRecord[1]
            elapsed == Call.at - before.last_decay_check
        IN  /\ Call.postRecord # Nothing
            /\ IF elapsed >= DecayAfter
               THEN /\ Returned.violation_count
                          = Max(0, before.count - elapsed \div DecayAfter) + 1
                    /\ Call.postRecord[1].last_decay_check = Call.at
               ELSE /\ Returned.violation_count = before.count + 1
                    /\ Call.postRecord[1].last_decay_check
                          = before.last_decay_check

\* a strike exactly one decay period after the last decay check of a record
\* with three strikes: one of them is taken off
DecayWitness ==
    /\ Struck
    /\ Call.preRecord # Nothing
    /\ Call.preRecord[1].count = 3
    /\ Call.at - Call.preRecord[1].last_decay_check = DecayAfter
    /\ Returned.violation_count = 3

\* C11: decay monotonicity.  A strike that comes a full decay period or more
\* after the key's previous strike, with nothing done to the key's record in
\* between, returns at most what the previous strike returned.
DecayMonotone ==
    (/\ Struck
     /\ Call.preRecord # Nothing
     /\ Call.at - Call.preRecord[1].last_triggered >= DecayAfter) =>
        Returned.violation_count <= Call.preRecord[1].count

\* the strike before returned 2; this one, a decay period later, returns 2
DecayMonotoneWitness ==
    /\ Struck
    /\ Call.preRecord # Nothing
    /\ Call.preRecord[1].count = 2
    /\ Call.at - Call.preRecord[1].last_triggered = DecayAfter
    /\ Returned.violation_count = 2

\* C12: decay only after quiet.  A strike that comes less than a decay
\* period after the key's previous strike has no decay applied: it returns
\* the previous count plus one.
DecayOnlyAfterQuiet ==
    (/\ Struck
     /\ Call.preRecord # Nothing
     /\ Call.at - Call.preRecord[1].last_triggered < DecayAfter) =>
        Returned.violation_count = Call.preRecord[1].count + 1

\* the last call was the first strike of its key since a forgive command
AfterReset ==
    /\ Struck
    /\ Call.preTally.resets > 0
    /\ Call.preTally.epochStrikes = 0

\* C13: reset clears state.  The first strike of a key after reset_user
\* returns violation count 1 and, when the rule forces no action, warn.
ResetClearsState ==
    AfterReset =>
        /\ Returned.violation_count = 1
        /\ Returned.reason # ReasonMassMention => Returned.action = WARN

\* a member with two strikes is forgiven; the next strike, not forced, is
\* answered by a warning
ResetWitness ==
    /\ AfterReset
    /\ Call.preTally.strikes = 2
    /\ Call.at < DecayAfter
    /\ Returned.reason = ReasonMentionSpam
    /\ Returned.action = WARN

\* C14: the frame of reset_user.  A forgive command for a key leaves every
\* history deque as it was, that of the key included, removes the key's
\* strike record and leaves every other strike record as it was.
ResetFrame ==
    [][\A k \in Keys :
          tally'[k].resets # tally[k].resets =>
              /\ history' = history
              /\ DOMAIN records' = DOMAIN records \ {k}
              /\ \A j \in DOMAIN records' : records'[j] = records[j]]_vars

\* a member that had strikes has been forgiven: its record is gone, its deque
\* still holds its messages, and the other member's record is in place
ResetFrameWitness ==
    /\ tally[<<Guild, Member1>>].resets > 0
    /\ tally[<<Guild, Member1>>].strikes > 0
    /\ <<Guild, Member1>> \notin DOMAIN records
    /\ <<Guild, Member1>> \in DOMAIN history
    /\ Len(history[<<Guild, Member1>>].items) > 0
    /\ <<Guild, Member2>> \in DOMAIN records

\* the message has no guild, or its author is not a member
InvalidInput(message) ==
    message.guild = None \/ message.author_kind # "member"

\* C15: invalid input.  A register_message call for a message without a
\* guild, or whose author is not a member, returns None and changes no
\* history deque and no strike record.
InvalidInputSkipped ==
    [][(last' # last /\ InvalidInput(last'[1].message)) =>
          /\ last'[1].result = Nothing
          /\ history' = history
          /\ records' = records]_vars

\* the last call was for a direct message with a mass mention, made while
\* a member has messages in its deque and a strike record
InvalidInputWitness ==
    /\ Called
    /\ Call.message = MsgNoGuild
    /\ Call.result = Nothing
    /\ <<Guild, Member1>> \in DOMAIN records
    /\ <<Guild, Member1>> \in DOMAIN history
    /\ Len(history[<<Guild, Member1>>].items) > 0

\* C16: cross-key independence.  A register_message call for a message of
\* member m in guild c changes the deque and the strike record of no key
\* other than (c, m), however the handlers of different members interleave.
CrossKeyIndependence ==
    [][last' # last =>
          \A j \in Keys \ {<<last'[1].message.guild, last'[1].message.author>>} :
              /\ Get(history', j) = Get(history, j)
              /\ Get(records', j) = Get(records, j)]_vars

\* the last call struck the second member while the first member has a
\* deque and a strike record and a handler of its own in flight
CrossKeyWitness ==
    /\ Struck
    /\ Call.message.author = Member2
    /\ <<Guild, Member1>> \in DOMAIN records
    /\ <<Guild, Member1>> \in DOMAIN history
    /\ \E h \in Handlers :
          /\ handlers[h].pc = "fetched"
          /\ handlers[h].message.author = Member1

\* the number of the last call among the calls made for its key
CallNumber == Call.preTally.calls + 1

\* every earlier call for the key is still in the deque the last call found,
\* and the oldest of them is no more than time_window seconds old
AllWithinWindow ==
    IF CallNumber = 1
    THEN Call.pre = Nothing \/ Len(Call.pre[1].items) = 0
    ELSE /\ Call.pre # Nothing
         /\ Len(Call.pre[1].items) = CallNumber - 1
         /\ Call.at - Call.pre[1].items[1].timestamp <= Call.config.time_window

\* C17: flood threshold.  A member without strikes sends messages that match
\* no rule but the flood rule, all within one time_window: calls 1 to
\* spam_limit return None, and call spam_limit + 1 returns the flood reason
\* with violation count 1 and action warn.
FloodThreshold ==
    (/\ Called
     /\ Call.config.enabled
     /\ Call.preRecord = Nothing
     /\ Call.preTally.strikes = 0
     /\ Call.preTally.resets = 0
     /\ AllWithinWindow
     /\ \A i \in {1, 3, 4, 5, 6} : ~RuleMatches(i)) =>
        /\ CallNumber <= Call.config.spam_limit => Call.result = Nothing
        /\ CallNumber = Call.config.spam_limit + 1 =>
              /\ Struck
              /\ Returned.reason = ReasonFlood
              /\ Returned.violation_count = 1
              /\ Returned.action = WARN

\* the fourth message under a limit of three, exactly time_window seconds
\* after the first: flood, first strike, warn
FloodWitness ==
    /\ Called
    /\ Call.preTally.strikes = 0
    /\ Call.preTally.resets = 0
    /\ AllWithinWindow
    /\ CallNumber = Call.config.spam_limit + 1
    /\ CallNumber = 4
    /\ Call.at - Call.pre[1].items[1].timestamp = Call.config.time_window
    /\ Struck
    /\ Returned.reason = ReasonFlood
    /\ Returned.action = WARN

\* C18: forced timeout.  With detection enabled, every message the
\* mass-mention rule matches is answered by timeout whatever its strike
\* count; the strike counter is incremented all the same, and the
\* incremented count is the one returned.
ForcedTimeout ==
    (Called /\ Call.config.enabled /\ IsMassMention(Call.message)) =>
        /\ Struck
        /\ Returned.action = TIMEOUT
        /\ Returned.violation_count = ExpectedCount(Call.preRecord, Call.at)
        /\ Call.postRecord # Nothing
        /\ Call.postRecord[1].count = Returned.violation_count

\* a mass mention that is the member's fourth strike in a row: timeout, not
\* the kick of the escalation table
ForcedTimeoutWitness ==
    /\ Struck
    /\ IsMassMention(Call.message)
    /\ Call.preRecord # Nothing
    /\ Call.preRecord[1].count = 3
    /\ Returned.violation_count = 4
    /\ Returned.action = TIMEOUT

\* some keyword occurs in the content, letter case set aside
KeywordPresent(content, keywords) ==
    \E i \in 1..Len(keywords) :
        \E at \in 0..(Len(content) - Len(keywords[i])) :
            \A n \in 1..Len(keywords[i]) :
                LowerChar(content[at + n]) = LowerChar(keywords[i][n])

\* C19: exception keywords.  A message whose content holds one of the
\* settings' exception keywords, letter case set aside, is never given the
\* near-duplicate reason.
ExceptionKeywords ==
    (/\ Called
     /\ KeywordPresent(Call.message.content, Call.config.exception_keywords)) =>
        ~(Struck /\ Returned.reason = ReasonAiSimilarity)

\* a message with the keyword, like two of the three before it, that no
\* earlier rule matches: it passes
ExceptionWitness ==
    /\ Called
    /\ Call.config.enabled
    /\ KeywordPresent(Call.message.content, Call.config.exception_keywords)
    /\ _has_ai_like_similarity(PostItems)
    /\ \A i \in 1..4 : ~RuleMatches(i)
    /\ Call.result = Nothing

\* C20: mention-spam guard.  When neither the mass-mention rule nor the
\* flood rule matches, the mention-spam reason is returned exactly when
\* mention_limit > 0 and the message has at least mention_limit mentions; for
\* a mention_limit of zero or less it is never returned.
MentionGuard ==
    (/\ Called
     /\ Call.config.enabled
     /\ ~RuleMatches(1)
     /\ ~RuleMatches(2)) =>
        ((Struck /\ Returned.reason = ReasonMentionSpam)
            <=> (/\ Call.config.mention_limit > 0
                 /\ count_mentions(Call.message) >= Call.config.mention_limit))

\* the points of the spec's table
PointsTable ==
    (WARN :> 1) @@ (DELETE :> 1) @@ (TIMEOUT :> 3) @@ (KICK :> 5) @@ (NONE :> 0)

\* C27: log points.  The points of an action kind are 1 for warn, 1 for
\* delete, 3 for timeout, 5 for kick and 0 for the remaining kind, and the
\* row logged for an executed SpamAction carries the points of its action.
LogPoints ==
    /\ \A a \in SpamActionType : _points_for_action(a) = PointsTable[a]
    /\ (logged # Nothing /\ logged[1].action \in SpamActionType) =>
          logged[1].points = PointsTable[logged[1].action]

\* the row of a kick at the fourth strike: 5 points
LogPointsWitness ==
    /\ logged # Nothing
    /\ logged[1].action = KICK
    /\ logged[1].violation_count = 4
    /\ logged[1].points = 5

\* C21: strike-record invariant.  Every record the tracker holds has a count
\* of at least 1, and every count returned is at least 1.
StrikeRecordInvariant ==
    /\ \A k \in DOMAIN records : records[k].count >= 1
    /\ Struck => Returned.violation_count >= 1

\* a record with one strike is struck again two decay periods later: the
\* decayed count of zero is not kept, the record starts again at 1
StrikeRecordWitness ==
    /\ Struck
    /\ Call.preRecord # Nothing
    /\ Call.preRecord[1].count = 1
    /\ Call.at - Call.preRecord[1].last_decay_check = 2 * DecayAfter
    /\ Returned.violation_count = 1
    /\ records[Call.key].count = 1

\* the deque the last call found, with the call's new record at its tail
PreItemsAppended ==
    (IF Call.pre = Nothing THEN <<>> ELSE Call.pre[1].items)
        \o <<MessageRecord(Call.id, Call.at, Call.message.content)>>

\* C22: history ordering.  The records of every deque are in non-decreasing
\* timestamp order, and a call leaves its key's deque as what it found plus
\* the new record at the tail, less some records at the head: the capacity
\* and the window both take the oldest records only.
HistoryOrdering ==
    /\ \A k \in DOMAIN history :
          \A i \in 1..(Len(history[k].items) - 1) :
              history[k].items[i].timestamp <= history[k].items[i + 1].timestamp
    /\ Called =>
          \E n \in 0..Len(PreItemsAppended) :
              PostItems = SubSeq(PreItemsAppended, n + 1, Len(PreItemsAppended))

\* the call found a full deque of 20 records: its oldest record went, the
\* others moved up and the new record is the last
HistoryOrderingWitness ==
    /\ Called
    /\ Call.pre # Nothing
    /\ Len(Call.pre[1].items) = MinCapacity
    /\ Len(PostItems) = MinCapacity
    /\ PostItems[1].id = Call.pre[1].items[2].id
    /\ PostItems[MinCapacity].id = Call.id

\* whether the newest record of the last call's deque is similar, at the
\* threshold, to the record `back` places before it
NewestSimilarTo(back, threshold) ==
    is_similar(PostItems[Len(PostItems)].normalized,
               PostItems[Len(PostItems) - back].normalized, threshold)

\* C23: duplicate-content rule.  When no rule before it matches, the
\* duplicate reason is returned exactly when the deque, after pruning, holds
\* at least 3 records and the newest is similar at 0.9 to both of the two
\* records before it; with fewer than 3 records it is never returned.
DuplicateRule ==
    (/\ Called
     /\ Call.config.enabled
     /\ \A i \in 1..3 : ~RuleMatches(i)) =>
        ((Struck /\ Returned.reason = ReasonDuplicate)
            <=> (/\ Len(PostItems) >= 3
                 /\ NewestSimilarTo(1, DuplicateThreshold)
                 /\ NewestSimilarTo(2, DuplicateThreshold)))

\* the third of three equal texts is a duplicate
DuplicateWitness ==
    /\ Called
    /\ Call.config.enabled
    /\ \A i \in 1..3 : ~RuleMatches(i)
    /\ Len(PostItems) = 3
    /\ PostItems[1].normalized = PostItems[3].normalized
    /\ PostItems[2].normalized = PostItems[3].normalized
    /\ Struck
    /\ Returned.reason = ReasonDuplicate

\* C24: near-duplicate rule.  When no rule before it matches and the content
\* holds no exception keyword, the near-duplicate reason is returned exactly
\* when the deque, after pruning, holds at least 4 records and the newest is
\* similar at 0.85 to at least 2 of the 3 records before it; with fewer than
\* 4 records it is never returned.
NearDuplicateRule ==
    (/\ Called
     /\ Call.config.enabled
     /\ \A i \in 1..4 : ~RuleMatches(i)
     /\ ~KeywordPresent(Call.message.content, Call.config.exception_keywords)) =>
        ((Struck /\ Returned.reason = ReasonAiSimilarity)
            <=> (/\ Len(PostItems) >= 4
                 /\ Cardinality({back \in 1..3 :
                        NewestSimilarTo(back, AiThreshold)}) >= 2))

\* the fourth of four texts that are alike at 0.85 without being alike at
\* 0.9 to the one before
NearDuplicateWitness ==
    /\ Called
    /\ Call.config.enabled
    /\ \A i \in 1..4 : ~RuleMatches(i)
    /\ ~KeywordPresent(Call.message.content, Call.config.exception_keywords)
    /\ Len(PostItems) = 4
    /\ ~NewestSimilarTo(1, DuplicateThreshold)
    /\ NewestSimilarTo(1, AiThreshold)
    /\ Struck
    /\ Returned.reason = ReasonAiSimilarity

\* C25: new-member rule.  When no rule before it matches, the new-account
\* reason is returned exactly when the account age or the membership age is
\* below new_user_minutes (the membership age being the account age when the
\* join time is absent) and the message holds a link, or counts 2 mentions
\* or more, or its deque, after pruning, holds spam_limit records or more.
NewMemberRule ==
    (/\ Called
     /\ Call.config.enabled
     /\ \A i \in 1..5 : ~RuleMatches(i)) =>
        LET m == Call.message
            minimum == Call.config.new_user_minutes * 60
            accountAge == Call.at - m.created_at
            memberAge == IF m.joined_at = Nothing THEN accountAge
                         ELSE Call.at - m.joined_at[1]
        IN  (Struck /\ Returned.reason = ReasonNewAccount)
                <=> (/\ accountAge < minimum \/ memberAge < minimum
                     /\ \/ contains_link(m.content)
                        \/ count_mentions(m) >= 2
                        \/ Len(PostItems) >= Call.config.spam_limit)

\* an old account that joined 599 seconds ago, without link or mention,
\* whose second message fills the deque up to spam_limit
NewMemberWitness ==
    /\ Called
    /\ Call.config.enabled
    /\ \A i \in 1..5 : ~RuleMatches(i)
    /\ Call.message = MsgNewJoined
    /\ Call.at = NewcomerAge - 1
    /\ Len(PostItems) = Call.config.spam_limit
    /\ Struck
    /\ Returned.reason = ReasonNewAccount

\* the occurrences of p in s, found from left to right without overlap
RECURSIVE Occurrences(_, _)
Occurrences(s, p) ==
    IF Len(s) < Len(p) THEN 0
    ELSE IF SubSeq(s, 1, Len(p)) = p
         THEN 1 + Occurrences(SubSeq(s, Len(p) + 1, Len(s)), p)
         ELSE Occurrences(Tail(s), p)

\* user mentions, role mentions, and 1 for the mention_everyone flag
StructuralMentions(message) ==
    message.mentions + message.role_mentions
    + (IF message.mention_everyone THEN 1 ELSE 0)

\* C26: count_mentions never under-counts.  For the message of every call
\* its result is at least the user mentions plus the role mentions plus 1
\* for the broadcast flag, and is that sum plus the occurrences of
\* "@everyone" and of "@here" in the content.
CountNeverUnder ==
    Called =>
        /\ count_mentions(Call.message) >= StructuralMentions(Call.message)
        /\ count_mentions(Call.message) =
              StructuralMentions(Call.message)
              + Occurrences(Call.message.content, <<"@", "e", "v", "e", "r", "y", "o", "n", "e">>)
              + Occurrences(Call.message.content, <<"@", "h", "e", "r", "e">>)

\* a message with every kind of mention: 1 + 1 + 1 + 3
CountWitness ==
    /\ Called
    /\ Call.message.mentions = 1
    /\ Call.message.role_mentions = 1
    /\ Call.message.mention_everyone
    /\ Occurrences(Call.message.content, <<"@", "h", "e", "r", "e">>) = 2
    /\ count_mentions(Call.message) = 6

\* C28: key retention.  No step removes a key from the history map, and a
\* step removes a key from the strike records only when it is a reset
\* (forgive) of that key.
KeyRetentionStep ==
    /\ DOMAIN history \subseteq DOMAIN history'
    /\ \A k \in DOMAIN records \ DOMAIN records' :
          /\ tally'[k].resets = tally[k].resets + 1
          /\ records' = reset(records, k)

KeyRetention == [][KeyRetentionStep]_vars

\* a strike long after the one before: the deque has lost every older record
\* and the strike record has decayed to zero, and both keys are still there
KeyRetentionWitness ==
    /\ Struck
    /\ Call.pre # Nothing
    /\ Call.preRecord # Nothing
    /\ Call.at - Call.preRecord[1].last_decay_check >= Call.preRecord[1].count * DecayAfter
    /\ Len(PostItems) = 1
    /\ PostItems[1].id = Call.id
    /\ Call.key \in DOMAIN history
    /\ Call.key \in DOMAIN records

\* C29: flood stays detectable when settings change.  A call for a key with
\* a deque, at a time when every message of the key is at most time_window
\* old, that is not a mass mention and is the key's call number spam_limit + 1
\* or later by the settings of the call, returns the flood reason, whatever
\* spam_limit was when the deque was made.
FloodAfterRetune ==
    (/\ Called
     /\ Call.config.enabled
     /\ Call.pre # Nothing
     /\ ~IsMassMention(Call.message)
     /\ Call.at <= Call.config.time_window
     /\ CallNumber > Call.config.spam_limit) =>
        (Struck /\ Returned.reason = ReasonFlood)

\* C30: strikes only on a match.  A register_message call that returns None
\* leaves the strike records of all keys as they were; a call that returns
\* an action changes the record of its key only, whose count becomes the
\* count it had (after decay) plus one, which is the count returned.
StrikeOnlyOnMatchStep ==
    last' # last =>
        LET call == last'[1]
        IN  /\ call.result = Nothing => records' = records
            /\ call.result # Nothing =>
                  /\ \A j \in (DOMAIN records \cup DOMAIN records') \ {call.key} :
                        Get(records', j) = Get(records, j)
                  /\ call.key \in DOMAIN records'
                  /\ records'[call.key].count = ExpectedCount(Get(records, call.key), now)
                  /\ call.result[1].violation_count = records'[call.key].count

StrikeOnlyOnMatch == [][StrikeOnlyOnMatchStep]_vars

\* a member with a strike record sends a message that matches no rule: None
\* is returned and the record is the one the call found
StrikeOnlyOnMatchWitness ==
    /\ Called
    /\ Call.config.enabled
    /\ Call.result = Nothing
    /\ Call.preRecord # Nothing
    /\ Call.postRecord = Call.preRecord
    /\ \E k \in DOMAIN records : k # Call.key

\* the action of the k-th strike of a flood that goes on
FloodStep(k) ==
    CASE k = 1 -> WARN
      [] k = 2 -> DELETE
      [] k = 3 -> TIMEOUT
      [] OTHER -> KICK

\* C31: continued flood.  A member without earlier strikes or resets keeps
\* sending messages that are no mass mentions, all within one time_window:
\* message spam_limit + k returns the flood reason with violation count k,
\* and warn, delete, timeout, kick for k = 1, 2, 3, 4.
FloodEscalation ==
    (/\ Called
     /\ Call.config.enabled
     /\ ~IsMassMention(Call.message)
     /\ Call.preTally.resets = 0
     /\ AllWithinWindow
     /\ CallNumber > Call.config.spam_limit
     /\ CallNumber <= Call.config.spam_limit + 4
     /\ Call.preTally.strikes = CallNumber - 1 - Call.config.spam_limit) =>
        /\ Struck
        /\ Returned.reason = ReasonFlood
        /\ Returned.violation_count = CallNumber - Call.config.spam_limit
        /\ Returned.action = FloodStep(CallNumber - Call.config.spam_limit)

\* the fourth message past the limit, one second after the first: kick
FloodEscalationWitness ==
    /\ Called
    /\ ~IsMassMention(Call.message)
    /\ Call.preTally.resets = 0
    /\ AllWithinWindow
    /\ CallNumber = Call.config.spam_limit + 4
    /\ Call.at - Call.pre[1].items[1].timestamp = Call.config.time_window
    /\ Struck
    /\ Returned.reason = ReasonFlood
    /\ Returned.violation_count = 4
    /\ Returned.action = KICK

\* a handler leaves process_spam_action in this step
Executes(h) == handlers[h].pc = "acting" /\ handlers'[h].pc = "idle"

\* C32: one log entry per action.  Whenever a handler has executed the
\* SpamAction that register_message returned for its message, whatever the
\* kind of the action and whether or not the platform calls succeeded, the
\* row of that action has been written to the log.
EveryActionLoggedStep ==
    \A h \in Handlers :
        Executes(h) =>
            /\ logged' # Nothing
            /\ logged'[1].key = KeyOf(handlers[h].message)
            /\ logged'[1].action = handlers[h].action.action
            /\ logged'[1].reason = handlers[h].action.reason
            /\ logged'[1].violation_count = handlers[h].action.violation_count

EveryActionLogged == [][EveryActionLoggedStep]_vars

\* C33: order of enforcement.  Without reset and decay, the rows logged for
\* the actions against one member follow the order in which the strike
\* counts were given: a row of a key has a higher violation count than the
\* row of that key logged before it.
LogOrderStep ==
    (/\ logged # Nothing
     /\ logged' # logged
     /\ logged'[1].key = logged[1].key
     /\ logged[1].action \in SpamActionType
     /\ logged'[1].action \in SpamActionType) =>
        logged'[1].violation_count > logged[1].violation_count

LogOrder == [][LogOrderStep]_vars

\* the author is a bot, is no guild member, owns the guild, or holds one of
\* the permissions administrator, manage-guild, manage-messages, kick-members
Excluded(message) ==
    \/ message.bot
    \/ message.author_kind # "member"
    \/ message.owner
    \/ \E p \in message.perms :
          p \in {"administrator", "manage_guild", "manage_messages", "kick_members"}

\* C34: messages of bots, of non-members and of privileged members never
\* reach the detector: no handler goes on with such a message, no
\* register_message call is made for one, no row is logged against its
\* author, and the step that receives it changes no deque, no strike record
\* and no log row.
StaffNeverReachStep ==
    dropped' # dropped =>
        /\ history' = history
        /\ records' = records
        /\ handlers' = handlers
        /\ logged' = logged

StaffNeverReachState ==
    /\ \A h \in Handlers :
          handlers[h].pc # "idle" => ~Excluded(handlers[h].message)
    /\ Called => ~Excluded(Call.message)
    /\ dropped # Nothing => Excluded(dropped[1]) \/ dropped[1].guild = None

CacheCoherence ==
    \A t \in Threads :
        (/\ threads[t].pc = "returned"
         /\ threads[t].op = "get"
         /\ threads[t].floor # Nothing
         /\ threads[t].clean) =>
            threads[t].result = threads[t].floor

\* C36: first touch.  Concurrent get_or_create calls for a guild without a
\* row all return settings: none of them fails.
FirstTouchSafe ==
    \A t \in Threads : threads[t].op = "get" => threads[t].pc # "failed"

\* C37: event hub delivery.  For every connection, the events it has
\* received followed by the events still on its queue are exactly the events
\* published while its generator was subscribed, in publish order: none
\* lost, none twice, none from after its unsubscribe.
HubDelivery ==
    \A c \in Connections : got[c] \o queues[c] = heard[c]

\* two connections: the first received two different events in publish
\* order, the second subscribed in between, received only the later one and
\* ended, and a third event reached only the first
HubDeliveryWitness ==
    \E c1, c2 \in Connections :
        /\ Len(got[c1]) = 3
        /\ got[c1][1] # got[c1][2]
        /\ conns[c2] \in {"disconnected", "cancelled"}
        /\ got[c2] = <<got[c1][2]>>
        /\ heard[c2] = got[c2]

\* C38: no subscriber leak.  The subscriber set is always the set of queues
\* of the connections whose generator has started and has not ended.
NoSubscriberLeak ==
    subscribers = {c \in Connections : conns[c] \in Alive}

\* one generator ended by a disconnect, one by cancellation, after both were
\* subscribed and received an event
NoSubscriberLeakWitness ==
    \E c1, c2 \in Connections :
        /\ conns[c1] = "disconnected"
        /\ conns[c2] = "cancelled"
        /\ got[c1] # <<>>
        /\ got[c2] # <<>>
        /\ subscribers = {}

\* the returned list of a finished generate_schedule_times call
ScheduleResult ==
    LET result == sched.result
        anchor == <<sched.hour % 24, sched.minute % 60>>
        listed == {result[i] : i \in 1..Len(result)}
    IN /\ result # <<>>
       /\ Cardinality(listed) = Len(result)
       /\ \A i \in 1..(Len(result) - 1) :
              \/ result[i][1] < result[i + 1][1]
              \/ result[i][1] = result[i + 1][1] /\ result[i][2] < result[i + 1][2]
       /\ \A t \in listed : t[1] \in 0..23 /\ t[2] \in 0..59
       /\ anchor \in listed
       /\ sched.interval < MinutesPerDay =>
              \A k \in 0..(MinutesPerDay - 1) :
                  \E m \in {(anchor[1] * 60 + anchor[2] + k * sched.interval) % MinutesPerDay} :
                      <<m \div 60, m % 60>> \in listed

\* C39: generate_schedule_times.  Every call returns, and the returned list
\* is not empty, holds pairwise distinct times of day in ascending order,
\* holds the anchor <<hour mod 24, minute mod 60>> and, for an interval
\* under a day, every anchor + k * interval modulo a day; an interval under
\* one minute counts as one minute.
ScheduleTimes ==
    /\ [](sched.pc = "done" => ScheduleResult)
    /\ [](sched.pc = "done" => sched.interval >= 1)
    /\ (sched.pc = "loop") ~> (sched.pc = "done")

\* a finished call with an hour and a minute out of range whose times
\* wrapped past midnight, so that the sort changed their order
ScheduleTimesWitness ==
    /\ sched.pc = "done"
    /\ sched.hour \notin 0..23
    /\ sched.minute \notin 0..59
    /\ Len(sched.result) > 2
    /\ sched.result # sched.times

=============================================================================
